---- MODULE Spec2Model ----
(***************************************************************************)
(* Verification model of the optionstrikeweb recommendation pipeline:      *)
(*   - the cache store            (lib/cache.js)                           *)
(*   - the market data gateways   (lib/earnings.js, lib/polygon.js)        *)
(*   - the recommendation engine  (lib/recommendationEngine.js)            *)
(* Time is Date.now() in milliseconds; the clock advances in whole         *)
(* minutes, or runs on to the moment a cache entry expires.  Every         *)
(* supabase query and every upstream call has its outcome chosen by the    *)
(* environment.                                                            *)
(***************************************************************************)
EXTENDS Integers, Sequences, FiniteSets, TLC

\* ------------------------------------------------------------------ bounds
MaxMinutes == 2          \* the clock runs from minute 0 to this minute
MaxWrites == 2           \* setCachedData calls started in one behaviour
MaxElapses == 1          \* times the clock runs on to the next expiry
MaxSteps == 6            \* steps of the limiter's clock
maxRequests == 2         \* this.maxRequests of the limiter

\* --------------------------------------------------------------- constants
MinuteMs == 60 * 1000    \* expirationMinutes * 60 * 1000

VARIABLES
    now,          \* Date.now()
    api_cache,    \* rows of table api_cache: [cache_key, data, expires_at]
    setCall,      \* per caller: the setCachedData call in flight
    lastGet,      \* the most recent getCachedData call and what it returned
    written,      \* per key: arguments of the last setCachedData that returned true
    nWrites,      \* number of setCachedData calls started
    recommendations,  \* rows of table recommendations, in insertion order
    criteria,     \* the criteria fields of the singleton engine
    run,          \* per run: the generateRecommendations call and its progress
    gw,           \* the most recent gateway call and how it ended
    multi,        \* the getMultipleOptionsChains call and its progress
    fetched,      \* per gateway cache key: the data a gateway last stored under it
    nElapse,      \* number of times the clock ran on to an expiry
    limiter,      \* the RateLimiter object: its requests and its retryCount
    limCall,      \* per caller: the checkLimit call in flight
    limLog,       \* timestamps recorded in the trailing window, and the last pass
    request,      \* the APIClient.request call and its progress
    epsBatch,     \* the calculateEPSGrowthBatch call and its progress
    calc          \* the most recent call of a function of calculations.js or
                  \* of meetsBasicCriteria: its arguments and what it returned

cacheVars == <<api_cache, setCall, lastGet, written, nWrites>>
engineVars == <<recommendations, criteria, run>>
gatewayVars == <<gw, multi, fetched, nElapse, epsBatch>>
limiterVars == <<limiter, limCall, limLog, request>>
vars == <<now, api_cache, setCall, lastGet, written, nWrites,
          recommendations, criteria, run, gw, multi, fetched, nElapse,
          limiter, limCall, limLog, request, epsBatch, calc>>

\* ------------------------------------------------------------ option values
NULL == [some |-> FALSE]
Some(v) == [some |-> TRUE, val |-> v]

\* ============================================================== cache store
CacheKeys == {"k1", "k2"}
Callers == {1, 2}
QueryOutcomes == {"ok", "error", "throws"}

SelectUnexpired_IgnoreExpiry(table, k, t) ==
    {r \in table : r.cache_key = k}

\* .from('api_cache').select('data').eq('cache_key', k).gt('expires_at', t)
SelectUnexpired(table, k, t) ==
    {r \in table : r.cache_key = k /\ r.expires_at > t}

\* getCachedData(cacheKey): q is the outcome of the supabase query
getCachedData(table, k, t, q) ==
    LET rows == SelectUnexpired(table, k, t) IN
    IF q # "ok" THEN NULL                          \* error reported or thrown
    ELSE IF Cardinality(rows) # 1 THEN NULL        \* maybeSingle(): no row
    ELSE Some((CHOOSE r \in rows : TRUE).data)

\* new Date(Date.now() + expirationMinutes * 60 * 1000)
ExpiresAt(t, ttl) == t + ttl * MinuteMs

\* .select('id').eq('cache_key', k).maybeSingle(): existingData is truthy
ExistingData(table, k, q) ==
    q = "ok" /\ \E r \in table : r.cache_key = k

UpdateRows_KeepExpiry(table, k, v, e) ==
    {r \in table : r.cache_key # k}
        \cup {[cache_key |-> k, data |-> v, expires_at |-> r.expires_at] :
                 r \in {x \in table : x.cache_key = k}}

\* .update({data, expires_at}).eq('cache_key', k)
UpdateRows(table, k, v, e) ==
    {r \in table : r.cache_key # k}
        \cup {[cache_key |-> k, data |-> v, expires_at |-> e] :
                 r \in {x \in table : x.cache_key = k}}

InsertFails_NoConstraint(table, k) == FALSE

\* .insert({cache_key, data, expires_at}); cache_key is UNIQUE
InsertFails(table, k) == \E r \in table : r.cache_key = k

\* the table after the write step of setCachedData; w is the query outcome
WriteTable(table, k, v, e, existing, w) ==
    IF w # "ok" THEN table
    ELSE IF existing THEN UpdateRows(table, k, v, e)
    ELSE IF InsertFails(table, k) THEN table
    ELSE table \cup {[cache_key |-> k, data |-> v, expires_at |-> e]}

\* the boolean setCachedData returns
WriteReturns(table, k, existing, w) ==
    /\ w = "ok"
    /\ (existing \/ ~InsertFails(table, k))

Idle == [pc |-> "idle"]

\* how a setCachedData call ends: q and w are the outcomes of its two queries
setCachedDataResult(table, k, existing, q, w) ==
    IF q = "throws" \/ w = "throws"
    THEN [kind |-> "return", value |-> FALSE]      \* the catch block
    ELSE [kind |-> "return", value |-> WriteReturns(table, k, existing, w)]

\* a finished setCachedData call: its key, what its existence check saw and
\* how it ended
Ended(k, existing, res) ==
    [pc |-> "idle", key |-> k, existingData |-> existing, res |-> res]

\* setCachedData up to the await of the existence check; a query that throws
\* ends the call in the catch block
CacheSetBegin(c, k, v, ttl, q) ==
    /\ setCall[c].pc = "idle"
    /\ nWrites < MaxWrites
    /\ nWrites' = nWrites + 1
    /\ setCall' = [setCall EXCEPT ![c] =
                     IF q = "throws"
                     THEN Ended(k, FALSE,
                                setCachedDataResult(api_cache, k, FALSE, q, "ok"))
                     ELSE [pc |-> "selected", key |-> k, data |-> v,
                           expiresAt |-> ExpiresAt(now, ttl),
                           existingData |-> ExistingData(api_cache, k, q)]]
    /\ UNCHANGED <<calc, now, api_cache, lastGet, written, engineVars, gatewayVars, limiterVars>>

\* setCachedData from the update/insert to its return
CacheSetEnd(c, w) ==
    LET s == setCall[c] IN
    /\ s.pc = "selected"
    /\ api_cache' = WriteTable(api_cache, s.key, s.data, s.expiresAt, s.existingData, w)
    /\ written' = IF WriteReturns(api_cache, s.key, s.existingData, w)
                  THEN [written EXCEPT ![s.key] =
                          Some([data |-> s.data, expires_at |-> s.expiresAt,
                                existed |-> s.existingData])]
                  ELSE written
    /\ setCall' = [setCall EXCEPT ![c] =
                     Ended(s.key, s.existingData,
                           setCachedDataResult(api_cache, s.key, s.existingData,
                                               "ok", w))]
    /\ UNCHANGED <<calc, now, lastGet, nWrites, engineVars, gatewayVars, limiterVars>>

\* one whole getCachedData call
CacheGet(k, q) ==
    /\ lastGet' = [called |-> TRUE, key |-> k, at |-> now, query |-> q,
                   threw |-> FALSE,
                   result |-> getCachedData(api_cache, k, now, q),
                   rows |-> {r \in api_cache : r.cache_key = k},
                   after |-> written[k]]
    /\ UNCHANGED <<calc, now, api_cache, setCall, written, nWrites, engineVars, gatewayVars, limiterVars>>

\* the clock
TickCache ==
    /\ now < MaxMinutes * MinuteMs
    /\ now' = now + MinuteMs
    /\ UNCHANGED <<calc, cacheVars, recommendations, criteria, run, gatewayVars, limiterVars>>

\* ==================================================== recommendation engine
\* Money is in cents, market capitalisation and revenue in millions of
\* dollars, delta and implied volatility in hundredths, dates are day numbers
\* (a 'YYYY-MM-DD' string parses to midnight of that day).
DayMs == 1000 * 60 * 60 * 24

\* ticker symbols are sequences of characters
AAPL == <<"A", "A", "P", "L">>
XY == <<"X", "Y">>
BRKB == <<"B", "R", "K", ".", "B">>

\* constructor(): the criteria fields of the singleton engine
DefaultCriteria ==
    [minDelta |-> 20, minPremiumPercentage |-> 350, minPOP |-> 87, maxPOP |-> 93,
     maxDaysToExpiry |-> 14, minDaysToExpiry |-> 1, maxSymbolsToProcess |-> 50,
     minMarketCap |-> 1000, minVolume |-> 10, minOpenInterest |-> 50]

BatchSize == 10          \* const batchSize = 10
TopN == 30               \* .slice(0, 30) and .limit(30)

Range(seq) == {seq[j] : j \in 1..Len(seq)}
Min(a, b) == IF a < b THEN a ELSE b
Max(a, b) == IF a > b THEN a ELSE b

\* array.slice(from, to) with 0-based bounds
Slice(seq, from, to) ==
    [j \in 1..Max(0, Min(Len(seq), to) - from) |-> seq[from + j]]

\* Math.log10 on the exact powers of ten the inputs are drawn from
RECURSIVE Log10(_)
Log10(x) == IF x < 10 THEN 0 ELSE 1 + Log10(x \div 10)

\* array.sort((a, b) => b.key - a.key): descending and stable, on a sequence
\* of records that carry their sort key in field key
RECURSIVE InsertDesc(_, _)
InsertDesc(sorted, x) ==
    IF sorted = <<>> THEN <<x>>
    ELSE IF x.key >= Head(sorted).key THEN <<x>> \o sorted
    ELSE <<Head(sorted)>> \o InsertDesc(Tail(sorted), x)

RECURSIVE SortDesc(_)
SortDesc(seq) ==
    IF seq = <<>> THEN <<>>
    ELSE InsertDesc(SortDesc(Tail(seq)), Head(seq))

\* the three symbol checks of the filter callbacks of prioritizeSymbols and
\* of processEarningsData
SymbolPassesFilter(symbol) ==
    /\ Len(symbol) >= 1 /\ Len(symbol) <= 5
    /\ ~\E j \in 1..Len(symbol) : symbol[j] \in {".", "-", "/"}
    /\ ~\E j \in 1..Len(symbol) :
            symbol[j] \in {"0", "1", "2", "3", "4", "5", "6", "7", "8", "9"}

PassesPriorityFilter_NoMarketCap(c, earning) == SymbolPassesFilter(earning.symbol)

\* the filter callback of prioritizeSymbols
PassesPriorityFilter(c, earning) ==
    /\ SymbolPassesFilter(earning.symbol)
    /\ ~(earning.marketCap # 0 /\ earning.marketCap < c.minMarketCap)

\* the map callback of prioritizeSymbols: the priority score; MarketCapLog is
\* Math.log10(marketCap / 1000000000) * 10 on powers of ten, toUpperCase is
\* String.prototype.toUpperCase on the characters of the model's alphabet
PriorityScore(earning) ==
    LET MarketCapLog(marketCap) ==
            IF marketCap >= 1000 THEN Log10(marketCap \div 1000) * 10
            ELSE 0 - Log10(1000 \div marketCap) * 10
        Upper(ch) == CASE ch = "a" -> "A" [] ch = "p" -> "P" [] ch = "l" -> "L"
                       [] OTHER -> ch
        toUpperCase(symbol) == [j \in 1..Len(symbol) |-> Upper(symbol[j])]
        KnownLiquid == {AAPL, <<"M", "S", "F", "T">>, <<"G", "O", "O", "G", "L">>,
                        <<"A", "M", "Z", "N">>, <<"T", "S", "L", "A">>,
                        <<"N", "V", "D", "A">>, <<"M", "E", "T", "A">>,
                        <<"N", "F", "L", "X">>}
    IN
    (IF earning.marketCap # 0 THEN Min(50, MarketCapLog(earning.marketCap)) ELSE 0)
    + (IF earning.epsGrowth # 0
       THEN Max(-10, Min(20, earning.epsGrowth \div 5)) ELSE 0)
    + (IF earning.revenue # 0
       THEN Min(20, (Log10(earning.revenue) + 3) * 5) ELSE 0)
    + (6 - Len(earning.symbol)) * 2
    + (IF toUpperCase(earning.symbol) \in KnownLiquid THEN 30 ELSE 0)

\* prioritizeSymbols(earningsData): filter, score, sort descending, slice, map
prioritizeSymbols(c, earningsData) ==
    LET kept == SelectSeq(earningsData, LAMBDA e : PassesPriorityFilter(c, e))
        scored == [j \in 1..Len(kept) |->
                     [symbol |-> kept[j].symbol, key |-> PriorityScore(kept[j])]]
        top == Slice(SortDesc(scored), 0, c.maxSymbolsToProcess)
    IN  [j \in 1..Len(top) |-> top[j].symbol]

\* calculatePremiumPercentage, in hundredths of a percent
calculatePremiumPercentage(premium, stockPrice) ==
    IF stockPrice <= 0 THEN 0 ELSE (premium * 10000) \div stockPrice

calculateMaxLoss_PerShare(strikePrice, premium) == strikePrice - premium

calculateMaxLoss(strikePrice, premium) == (strikePrice - premium) * 100

calculateTimeToExpiry_Signed(expirationDate, t) ==
    (((expirationDate * DayMs - t) \div 3600000) * 100000) \div 8766

\* calculateTimeToExpiry(expirationDate) at clock t, in 1/100000 of a year:
\* whole hours over the 8766 hours of 365.25 days
calculateTimeToExpiry(expirationDate, t) ==
    Max(0, (((expirationDate * DayMs - t) \div 3600000) * 100000) \div 8766)

\* calculatePOP, in hundredths of a percent.  riskFreeRate and
\* impliedVolatility are in hundredths, timeToExpiry in 1/100000 of a year;
\* the logarithm is the series 2(z + z^3/3) of z = (S - K)/(S + K) and d2 is
\* carried in hundredths; sqrtT is the whole part of 1000 * Math.sqrt of the
\* time, found by tens and then by units.  normalCDF is tabulated at the multiples of 0.25 up
\* to 3 and is linear in between; it reaches 1 at 4, where erf returns 1 in
\* double precision.  A strike of 0 gives d2 = Infinity.  The stock price is
\* positive whenever the logarithm is taken.
calculatePOP(stockPrice, strikePrice, timeToExpiry, riskFreeRate, impliedVolatility) ==
    LET z == ((stockPrice - strikePrice) * 100000) \div (stockPrice + strikePrice)
        ln == 2 * z + (2 * ((z * z) \div 100000) * z) \div 300000
        drift == ((200 * riskFreeRate - impliedVolatility * impliedVolatility)
                     * timeToExpiry) \div 20000
        tens == CHOOSE k \in 0..200 : (10 * k + 10) * (10 * k + 10) > timeToExpiry * 10
        sqrtT == CHOOSE k \in (10 * tens)..(10 * tens + 9) :
                    k * k <= timeToExpiry * 10 /\ (k + 1) * (k + 1) > timeToExpiry * 10
        d2 == ((ln + drift) * 100) \div (impliedVolatility * sqrtT)
        table == <<5000, 5987, 6915, 7734, 8413, 8944, 9332, 9599, 9772, 9878,
                   9938, 9970, 9987>>
        upper(x) == IF x >= 400 THEN 10000
                    ELSE IF x >= 300 THEN 9987 + ((x - 300) * 13) \div 100
                    ELSE table[x \div 25 + 1]
                         + ((x % 25) * (table[x \div 25 + 2] - table[x \div 25 + 1])) \div 25
        normalCDF(x) == IF x >= 0 THEN upper(x) ELSE 10000 - upper(0 - x)
    IN  IF timeToExpiry <= 0 \/ impliedVolatility <= 0 THEN 0
        ELSE IF strikePrice = 0 THEN 10000
        ELSE normalCDF(d2)

\* the six sub-scores of calculateConfidenceScore, in hundredths of a point;
\* impliedVol in hundredths, epsGrowth in percent, pop and premiumPct in
\* hundredths of a percent
SubScores(impliedVol, openInterest, volume, epsGrowth, pop, premiumPct) ==
    [ivScore |-> Max(0, 10000 - impliedVol * 200),
     oiScore |-> Min(10000, Log10(Max(1, openInterest)) * 2500),
     volumeScore |-> Min(10000, Log10(Max(1, volume)) * 2000),
     epsScore |-> Max(0, Min(10000, (epsGrowth + 50) * 133)),
     popScore |-> Max(0, Min(10000, pop)),
     premiumScore |-> Min(10000, premiumPct * 20)]

calculateConfidenceScore_NoClamp(impliedVol, openInterest, volume, epsGrowth, pop, premiumPct) ==
    LET s == SubScores(impliedVol, openInterest, volume, epsGrowth, pop, premiumPct)
    IN  (s.ivScore * 25 + s.oiScore * 20 + s.volumeScore * 20
            + s.epsScore * 15 + s.popScore * 10 + s.premiumScore * 10) \div 100

\* calculateConfidenceScore: the weighted average of the sub-scores, clamped
calculateConfidenceScore(impliedVol, openInterest, volume, epsGrowth, pop, premiumPct) ==
    LET s == SubScores(impliedVol, openInterest, volume, epsGrowth, pop, premiumPct)
        confidence == (s.ivScore * 25 + s.oiScore * 20 + s.volumeScore * 20
                        + s.epsScore * 15 + s.popScore * 10 + s.premiumScore * 10)
                          \div 100
    IN  Max(0, Min(10000, confidence))

meetsBasicCriteria_AllowEqualDates(c, option, stockPrice, earningsDate, t) ==
    LET Ceil(a, b) == 0 - ((0 - a) \div b)
        Abs(x) == IF x < 0 THEN -x ELSE x
        daysToExpiry == Ceil(option.expiration * DayMs - t, DayMs)
    IN
    /\ ~(Abs(option.delta) > c.minDelta)
    /\ ~(calculatePremiumPercentage(option.premium, stockPrice) < c.minPremiumPercentage)
    /\ ~(daysToExpiry < c.minDaysToExpiry \/ daysToExpiry > c.maxDaysToExpiry)
    /\ ~(option.expiration < earningsDate)
    /\ ~(option.volume < c.minVolume \/ option.openInterest < c.minOpenInterest)
    /\ ~(option.premium <= 0 \/ option.premium * 10 > stockPrice)

\* meetsBasicCriteria(option, stockPrice, earningsDate) at clock t; Ceil is
\* Math.ceil(a / b) for b > 0
meetsBasicCriteria(c, option, stockPrice, earningsDate, t) ==
    LET Ceil(a, b) == 0 - ((0 - a) \div b)
        Abs(x) == IF x < 0 THEN -x ELSE x
        daysToExpiry == Ceil(option.expiration * DayMs - t, DayMs)
    IN
    /\ ~(Abs(option.delta) > c.minDelta)
    /\ ~(calculatePremiumPercentage(option.premium, stockPrice) < c.minPremiumPercentage)
    /\ ~(daysToExpiry < c.minDaysToExpiry \/ daysToExpiry > c.maxDaysToExpiry)
    /\ ~(option.expiration <= earningsDate)
    /\ ~(option.volume < c.minVolume \/ option.openInterest < c.minOpenInterest)
    /\ ~(option.premium <= 0 \/ option.premium * 10 > stockPrice)

\* what processSymbol computes for a contract that met the basic criteria:
\* the probability of profit and the confidence score
Metrics(earnings, option, stockPrice, t) ==
    LET pop == calculatePOP(stockPrice, option.strike,
                            calculateTimeToExpiry(option.expiration, t), 5,
                            option.impliedVolatility)
    IN  [pop |-> pop,
         confidenceScore |->
             calculateConfidenceScore(option.impliedVolatility, option.openInterest,
                 option.volume, earnings.epsGrowth, pop,
                 calculatePremiumPercentage(option.premium, stockPrice))]

\* the recommendation object processSymbol builds for one contract
Recommendation(symbol, earnings, option, stockPrice, t) ==
    LET metrics == Metrics(earnings, option, stockPrice, t)
        calculateBreakeven(strikePrice, premium) == strikePrice - premium
    IN
    [symbol |-> symbol,
     strike_price |-> option.strike,
     expiration_date |-> option.expiration,
     premium |-> option.premium,
     confidence_score |-> metrics.confidenceScore,
     pop |-> metrics.pop,
     delta |-> IF option.delta < 0 THEN -option.delta ELSE option.delta,
     implied_volatility |-> option.impliedVolatility,
     premium_percentage |-> calculatePremiumPercentage(option.premium, stockPrice),
     max_loss |-> calculateMaxLoss(option.strike, option.premium),
     breakeven |-> calculateBreakeven(option.strike, option.premium),
     earnings_date |-> earnings.date,
     volume |-> option.volume,
     open_interest |-> option.openInterest,
     stock_price |-> stockPrice,
     eps_growth |-> earnings.epsGrowth]

Emits_NoPopBand(c, earnings, option, stockPrice, t) ==
    meetsBasicCriteria(c, option, stockPrice, earnings.date, t)

\* the per-contract test of processSymbol: the basic criteria, then the band
\* of the probability of profit (minPOP and maxPOP are in percent)
Emits(c, earnings, option, stockPrice, t) ==
    LET pop == Metrics(earnings, option, stockPrice, t).pop IN
    /\ meetsBasicCriteria(c, option, stockPrice, earnings.date, t)
    /\ ~(pop < c.minPOP * 100 \/ pop > c.maxPOP * 100)

\* processSymbol(symbol, earnings, options)
processSymbol(c, symbol, earnings, options, t) ==
    LET stockPrice == options.underlyingPrice
        kept == SelectSeq(options.options,
                          LAMBDA o : Emits(c, earnings, o, stockPrice, t))
    IN  IF stockPrice <= 0 THEN <<>>
        ELSE [j \in 1..Len(kept) |->
                Recommendation(symbol, earnings, kept[j], stockPrice, t)]

\* the loop of processBatch over the symbols from position j on; e is
\* earningsData.find(e => e.symbol === symbol): the index of the first match,
\* 0 if none
RECURSIVE BatchLoop(_, _, _, _, _, _)
BatchLoop(c, symbols, j, earningsData, results, t) ==
    IF j > Len(symbols) THEN <<>>
    ELSE LET symbol == symbols[j]
             e == IF \E m \in 1..Len(earningsData) : earningsData[m].symbol = symbol
                  THEN CHOOSE m \in 1..Len(earningsData) :
                          /\ earningsData[m].symbol = symbol
                          /\ \A n \in 1..(m - 1) : earningsData[n].symbol # symbol
                  ELSE 0
             mine == IF e = 0 \/ symbol \notin DOMAIN results THEN <<>>
                     ELSE processSymbol(c, symbol, earningsData[e], results[symbol], t)
         IN  mine \o BatchLoop(c, symbols, j + 1, earningsData, results, t)

processBatch_SkipsBatch(c, symbols, earningsData, outs, t) ==
    LET results == [j \in 1..Len(symbols) |-> outs[j].chain] IN
    IF \E j \in 1..Len(symbols) : ~outs[j].ok THEN <<>>
    ELSE BatchLoop(c, symbols, 1, earningsData,
                   [sym \in Range(symbols) |->
                       results[CHOOSE j \in 1..Len(symbols) : symbols[j] = sym]], t)

\* processBatch(symbols, earningsData), given the outcome outs[j] of the
\* getOptionsChain call getMultipleOptionsChains makes for symbols[j]
processBatch(c, symbols, earningsData, outs, t) ==
    LET ok == {j \in 1..Len(symbols) : outs[j].ok}
        results ==
            [sym \in {symbols[j] : j \in ok} |->
                outs[CHOOSE j \in ok :
                        /\ symbols[j] = sym
                        /\ \A m \in ok : symbols[m] = sym => m <= j].chain]
    IN  BatchLoop(c, symbols, 1, earningsData, results, t)

SortAndSlice_Unsorted(recs) == Slice(recs, 0, TopN)

\* recommendations.sort((a, b) => b.confidence_score - a.confidence_score).slice(0, 30)
SortAndSlice(recs) ==
    LET keyed == [j \in 1..Len(recs) |-> [key |-> recs[j].confidence_score, rec |-> recs[j]]]
        top == Slice(SortDesc(keyed), 0, TopN)
    IN  [j \in 1..Len(top) |-> top[j].rec]

\* ------------------------------------------------------------ engine inputs
Runs == {"r1", "r2"}     \* two calls, which may overlap or follow one another

Earning(symbol, marketCap, date) ==
    [symbol |-> symbol, date |-> date, epsGrowth |-> 50, marketCap |-> marketCap,
     revenue |-> 0]

\* what getEarningsCalendar can throw: the limiter's refusal and an API error
LimiterRefusal == "FMP rate limit exceeded after 3 retries"

\* XY reports on day 5 and AAPL on day 8
EarningsOutcomes ==
    {[threw |-> FALSE, data |-> d, error |-> ""] :
        d \in {<<>>,
               <<Earning(BRKB, 100000, 5)>>,
               <<Earning(XY, 10000, 5), Earning(AAPL, 100000, 8)>>}}
        \cup {[threw |-> TRUE, data |-> <<>>, error |-> e] :
              e \in {LimiterRefusal, "HTTP 500"}}

Put(strike, expiration, premium, delta, volume, openInterest) ==
    [strike |-> strike, expiration |-> expiration, premium |-> premium,
     delta |-> delta, impliedVolatility |-> 30, volume |-> volume,
     openInterest |-> openInterest]

\* the chains getOptionsChain can return: the first holds a contract that
\* expires on AAPL's earnings date and one whose delta is too large; the
\* second holds sixteen contracts that expire a day later and pass every
\* filter, so that two symbols yield more than TopN candidates, and one whose
\* probability of profit is too high; the third has no price
Chains ==
    {[underlyingPrice |-> 10000,
      options |-> <<Put(9500, 8, 400, -15, 100, 1000), Put(9700, 8, 400, -25, 100, 1000)>>],
     [underlyingPrice |-> 10000,
      options |-> [j \in 1..16 |->
                      Put(9400 + 4 * j, 9, 350 + 3 * (j % 5), -10, 1000, 1000)]
                  \o <<Put(9000, 9, 350, -10, 1000, 1000)>>],
     [underlyingPrice |-> 0,
      options |-> <<Put(9500, 8, 400, -15, 100, 1000)>>]}

\* getOptionsChain(symbol) returns a chain or throws
ChainOutcomes ==
    {[ok |-> TRUE, chain |-> ch] : ch \in Chains}
        \cup {[ok |-> FALSE,
              chain |-> [underlyingPrice |-> 0, options |-> <<>>]]}

DbOutcomes == {"ok", "error"}        \* a supabase call inside setCachedData

\* =================================================== market data gateways
\* The field mock of a call's input is shouldUseMockData, which is
\* USE_MOCK_DATA || !API_KEY || !client and the same for every call of a
\* behaviour: with it a cache miss is answered from mockData.js, without it a
\* cache miss goes upstream.  The values the gateways cache are objects and
\* arrays, which are truthy in if (cachedData).
CACHE_STOCK_MINUTES == 5
CACHE_OPTIONS_MINUTES == 15
CACHE_EARNINGS_MINUTES == 240
EpsGrowthMinutes == 1440     \* setCachedData(cacheKey, growth, 1440)

GatewaySymbols == {AAPL}     \* the symbol of the single calls

\* cache keys are template literals: the sequence of their parts
StaleKey(cacheKey) == cacheKey \o <<"_stale">>
StockKey(symbol) == <<"stock_price_">> \o symbol
OptionsKey(symbol) == <<"options_chain_">> \o symbol   \* expirationDate is null

\* an Error object; status 0 stands for an Error without a status field
Err(message, status) == [message |-> message, status |-> status]

\* the errors of the upstream part of a gateway call: the refusal of a limiter,
\* an HTTP error status, a 200 response whose body has .error, and the
\* APIErrors the gateways raise themselves
Errors ==
    [fmpLimiter |-> Err(LimiterRefusal, 0),
     polygonLimiter |-> Err("Polygon.io rate limit exceeded after 3 retries", 0),
     http429 |-> Err("HTTP 429", 429),
     http500 |-> Err("HTTP 500", 500),
     limitReach |-> Err("Limit Reach", 200),
     invalidFormat |-> Err("Invalid response format from earnings API", 500),
     apiError |-> Err("API error: Unknown error", 500)]

\* how a gateway call ends
Returns(v) == [kind |-> "return", value |-> Some(v), error |-> Err("", 0)]
Throws(e) == [kind |-> "throw", value |-> NULL, error |-> e]

\* await setCachedData(k, v, ttl): cq and cw are the outcomes of its existence
\* check and of its write
Store(table, k, v, t, ttl, cq, cw) ==
    WriteTable(table, k, v, ExpiresAt(t, ttl), ExistingData(table, k, cq), cw)

\* the entry a gateway has stored, if its setCachedData call returned true
FreshEntry(table, k, v, cq, cw) ==
    IF WriteReturns(table, k, ExistingData(table, k, cq), cw)
    THEN <<[cache_key |-> k, data |-> v]>> ELSE <<>>

\* what a gateway call did: the table it leaves, whether the cache answered,
\* whether it went upstream (a limiter recorded a timestamp and the client
\* issued an HTTP request: a limiter that refuses records nothing and the
\* request is not made), whether the upstream part failed and with what, what
\* the stale read gave, the entries it stored, and how it ended
CallResult(table, hit, upstream, failed, error, stale, fresh, res) ==
    [table |-> table, hit |-> hit, upstream |-> upstream, failed |-> failed,
     error |-> error, stale |-> stale, fresh |-> fresh, res |-> res]

\* an upstream call resolves with one of the responses or rejects with one of
\* the errors
Outcomes(responses, errors, none) ==
    {[ok |-> TRUE, error |-> Err("", 0), data |-> d] : d \in responses}
        \cup {[ok |-> FALSE, error |-> e, data |-> none] : e \in errors}

\* --------------------------------------------------------------- mock data
\* mockEarningsData, of which two rows are kept: AAPL, which has a chain in
\* mockOptionsData, and CRM, which has none.  Day 0 is 2025-06-20, market
\* capitalizations are in millions of dollars.
mockEarningsData ==
    <<[symbol |-> AAPL, date |-> 5, revenue |-> 11958, epsGrowth |-> 8,
       marketCap |-> 3000000, time |-> "amc"],
      [symbol |-> <<"C", "R", "M">>, date |-> 5, revenue |-> 928, epsGrowth |-> 14,
       marketCap |-> 250000, time |-> "amc"]>>

\* mockOptionsData[symbol] || { underlyingPrice: 100.00, options: [] }
mockOptionsData(symbol) ==
    IF symbol = AAPL
    THEN [underlyingPrice |-> 18564,
          options |->
            <<[strike |-> 18000, expiration |-> 14, type |-> "put", bid |-> 215,
               ask |-> 225, premium |-> 220, delta |-> -18,
               impliedVolatility |-> 28, volume |-> 1250, openInterest |-> 3420],
              [strike |-> 17500, expiration |-> 14, type |-> "put", bid |-> 145,
               ask |-> 155, premium |-> 150, delta |-> -12,
               impliedVolatility |-> 26, volume |-> 890, openInterest |-> 2180],
              [strike |-> 17000, expiration |-> 21, type |-> "put", bid |-> 185,
               ask |-> 195, premium |-> 190, delta |-> -15,
               impliedVolatility |-> 29, volume |-> 1560, openInterest |-> 4230]>>]
    ELSE [underlyingPrice |-> 10000, options |-> <<>>]

\* ---------------------------------------------------------- polygon gateway

\* data.status !== 'OK' throws
UpstreamOk(up) == up.ok /\ up.data.status = "OK"

\* the environment's part in one getStockPrice call: the cache read, the
\* upstream call, whose good responses are bodies of
\* polygonClient.get(`/v2/aggs/ticker/${symbol}/prev`), and then either the
\* stale read or the two steps of the store
StockInputs ==
    LET StockResponses ==
            {[status |-> "OK", results |-> <<[c |-> 10000]>>],
             [status |-> "DELAYED", results |-> <<>>]}
        ups == Outcomes(StockResponses,
                        {Errors.polygonLimiter, Errors.http500},
                        [status |-> "", results |-> <<>>])
    IN
    {[mock |-> FALSE, q |-> q, up |-> up, sq |-> "ok", cq |-> cq, cw |-> cw] :
        q \in DbOutcomes, up \in {o \in ups : UpstreamOk(o)},
        cq \in DbOutcomes, cw \in DbOutcomes}
    \cup
    {[mock |-> FALSE, q |-> q, up |-> up, sq |-> sq, cq |-> "ok", cw |-> "ok"] :
        q \in DbOutcomes, up \in {o \in ups : ~UpstreamOk(o)},
        sq \in DbOutcomes}

\* the catch block of getStockPrice
StockPriceCatch(staleData, error) ==
    IF staleData.some THEN Returns(staleData.val) ELSE Throws(error)

getStockPrice_IgnoresMock(table, symbol, t, in) ==
    LET cacheKey == StockKey(symbol)
        cachedData == getCachedData(table, cacheKey, t, in.q)
        error == IF in.up.ok THEN Errors.apiError ELSE in.up.error
        staleData == getCachedData(table, StaleKey(cacheKey), t, in.sq)
    IN  IF cachedData.some
        THEN CallResult(table, TRUE, FALSE, FALSE, Err("", 0), NULL, <<>>,
                        Returns(cachedData.val))
        ELSE IF UpstreamOk(in.up)
        THEN CallResult(Store(table, cacheKey, in.up.data, t,
                              CACHE_STOCK_MINUTES, in.cq, in.cw),
                        FALSE, TRUE, FALSE, Err("", 0), NULL,
                        FreshEntry(table, cacheKey, in.up.data, in.cq, in.cw),
                        Returns(in.up.data))
        ELSE CallResult(table, FALSE, error # Errors.polygonLimiter, TRUE,
                        error, staleData, <<>>,
                        StockPriceCatch(staleData, error))

\* getStockPrice(symbol)
getStockPrice(table, symbol, t, in) ==
    LET cacheKey == StockKey(symbol)
        cachedData == getCachedData(table, cacheKey, t, in.q)
        mockData == [status |-> "OK",
                     results |-> <<[c |-> mockOptionsData(symbol).underlyingPrice]>>]
        error == IF in.up.ok THEN Errors.apiError ELSE in.up.error
        staleData == getCachedData(table, StaleKey(cacheKey), t, in.sq)
    IN  IF cachedData.some
        THEN CallResult(table, TRUE, FALSE, FALSE, Err("", 0), NULL, <<>>,
                        Returns(cachedData.val))
        ELSE IF in.mock
        THEN CallResult(Store(table, cacheKey, mockData, t,
                              CACHE_STOCK_MINUTES, in.cq, in.cw),
                        FALSE, FALSE, FALSE, Err("", 0), NULL,
                        FreshEntry(table, cacheKey, mockData, in.cq, in.cw),
                        Returns(mockData))
        ELSE IF UpstreamOk(in.up)
        THEN CallResult(Store(table, cacheKey, in.up.data, t,
                              CACHE_STOCK_MINUTES, in.cq, in.cw),
                        FALSE, TRUE, FALSE, Err("", 0), NULL,
                        FreshEntry(table, cacheKey, in.up.data, in.cq, in.cw),
                        Returns(in.up.data))
        ELSE CallResult(table, FALSE, error # Errors.polygonLimiter, TRUE,
                        error, staleData, <<>>,
                        StockPriceCatch(staleData, error))

\* bodies of polygonClient.get(`/v3/snapshot/options/${symbol}`), built from
\* contracts of the snapshot response
SnapshotResponses ==
    LET RawOption(type, strike, bid, ask) ==
            [details |-> [contract_type |-> type, strike_price |-> strike,
                          expiration_date |-> 8],
             market_status |-> "open", bid |-> bid, ask |-> ask,
             last_quote |-> [price |-> 0], greeks |-> [delta |-> -15],
             implied_volatility |-> 30, session |-> [volume |-> 500],
             open_interest |-> 1000]
    IN
    {[status |-> "OK",
      results |-> <<RawOption("put", 9500, 390, 410),
                    RawOption("call", 10500, 100, 120)>>],
     [status |-> "DELAYED", results |-> <<>>]}

\* the environment's part in one getOptionsChain call: the cache read, the
\* snapshot call, the nested getStockPrice call, and then either the stale read
\* or the two steps of the store
OptionsInputs ==
    LET ups == Outcomes(SnapshotResponses,
                        {Errors.polygonLimiter, Errors.http500},
                        [status |-> "", results |-> <<>>])
        anyStock == CHOOSE s \in StockInputs : UpstreamOk(s.up)
    IN
    {[mock |-> FALSE, q |-> q, up |-> up, stock |-> anyStock, sq |-> sq,
      cq |-> "ok", cw |-> "ok"] :
        q \in DbOutcomes, up \in {o \in ups : ~UpstreamOk(o)},
        sq \in DbOutcomes}
    \cup
    {[mock |-> FALSE, q |-> q, up |-> up, stock |-> st, sq |-> sq, cq |-> "ok", cw |-> "ok"] :
        q \in DbOutcomes, up \in {o \in ups : UpstreamOk(o)},
        st \in {s \in StockInputs : ~UpstreamOk(s.up)}, sq \in DbOutcomes}
    \cup
    {[mock |-> FALSE, q |-> q, up |-> up, stock |-> st, sq |-> "ok", cq |-> cq, cw |-> cw] :
        q \in DbOutcomes, up \in {o \in ups : UpstreamOk(o)},
        st \in {s \in StockInputs : UpstreamOk(s.up)},
        cq \in DbOutcomes, cw \in DbOutcomes}

\* processOptionsData(rawData, symbol, null), given the price its getStockPrice
\* call returned: the put contracts, each as a processedOption
processOptionsData(rawData, symbol, currentPrice, t) ==
    LET puts == SelectSeq(rawData.results,
                          LAMBDA option : option.details.contract_type = "put")
    IN
    [symbol |-> symbol, underlyingPrice |-> currentPrice,
     options |-> [j \in 1..Len(puts) |->
        [symbol |-> symbol, strike |-> puts[j].details.strike_price,
         expiration |-> puts[j].details.expiration_date, type |-> "put",
         bid |-> puts[j].bid, ask |-> puts[j].ask,
         premium |-> IF puts[j].market_status = "open"
                     THEN (puts[j].bid + puts[j].ask) \div 2
                     ELSE puts[j].last_quote.price,
         delta |-> puts[j].greeks.delta,
         impliedVolatility |-> puts[j].implied_volatility,
         volume |-> puts[j].session.volume,
         openInterest |-> puts[j].open_interest,
         stockPrice |-> currentPrice]],
     timestamp |-> t, status |-> "OK"]

OptionsChainCatch_EmptyChain(staleData, error) ==
    IF staleData.some THEN Returns(staleData.val)
    ELSE Returns([symbol |-> <<>>, underlyingPrice |-> 0, options |-> <<>>,
                  timestamp |-> 0, status |-> "OK"])

\* the catch block of getOptionsChain
OptionsChainCatch(staleData, error) ==
    IF staleData.some THEN Returns(staleData.val) ELSE Throws(error)

\* getOptionsChain(symbol)
getOptionsChain(table, symbol, t, in) ==
    LET cacheKey == OptionsKey(symbol)
        cachedData == getCachedData(table, cacheKey, t, in.q)
        stock == getStockPrice(table, symbol, t, in.stock)
        stockData == stock.res.value.val
        processedData ==        \* stockData.results?.[0]?.c || 0
            processOptionsData(in.up.data, symbol,
                               IF Len(stockData.results) > 0
                               THEN stockData.results[1].c ELSE 0, t)
        error == IF ~in.up.ok THEN in.up.error
                 ELSE IF ~UpstreamOk(in.up) THEN Errors.apiError
                 ELSE stock.res.error
        afterTry == IF UpstreamOk(in.up) THEN stock.table ELSE table
        staleData == getCachedData(afterTry, StaleKey(cacheKey), t, in.sq)
        mockData == mockOptionsData(symbol)
    IN  IF cachedData.some
        THEN CallResult(table, TRUE, FALSE, FALSE, Err("", 0), NULL, <<>>,
                        Returns(cachedData.val))
        ELSE IF in.mock
        THEN CallResult(Store(table, cacheKey, mockData, t,
                              CACHE_OPTIONS_MINUTES, in.cq, in.cw),
                        FALSE, FALSE, FALSE, Err("", 0), NULL,
                        FreshEntry(table, cacheKey, mockData, in.cq, in.cw),
                        Returns(mockData))
        ELSE IF UpstreamOk(in.up) /\ stock.res.kind = "return"
        THEN CallResult(Store(stock.table, cacheKey, processedData, t,
                              CACHE_OPTIONS_MINUTES, in.cq, in.cw),
                        FALSE, TRUE, FALSE, Err("", 0), NULL,
                        stock.fresh \o FreshEntry(stock.table, cacheKey,
                                                  processedData, in.cq, in.cw),
                        Returns(processedData))
        ELSE CallResult(afterTry, FALSE, error # Errors.polygonLimiter, TRUE,
                        error, staleData, <<>>,
                        OptionsChainCatch(staleData, error))

\* --------------------------------------------------------- earnings gateway
\* fromDate and toDate as getEarningsCalendar(fromDate, toDate, expandedRange)
\* goes on with them: if one of them is missing, both are replaced, by
\* getExtendedDateRange(), from 3 days ago to 21 days ahead, or by the first
\* day of getCurrentWeekRange() and the last day of getNextWeekRange().  A
\* date string (toISOString().split('T')[0]) is the number of its day, and
\* getDay() is 5 on day 0, a Friday.
DateRange(fromDate, toDate, expandedRange, t) ==
    LET today == t \div DayMs
        dayOfWeek == (today + 5) % 7
        getExtendedDateRange == [from |-> today - 3, to |-> today + 21]
    IN  IF fromDate.some /\ toDate.some
        THEN [from |-> fromDate.val, to |-> toDate.val]
        ELSE IF expandedRange THEN getExtendedDateRange
        ELSE [from |-> today - dayOfWeek, to |-> today + (7 - dayOfWeek) + 6]

EarningsKey_NoFlag(fromDate, toDate, expandedRange, t) ==
    LET range == DateRange(fromDate, toDate, expandedRange, t) IN
    <<"fmp_earnings_", range.from, "_", range.to>>

\* `fmp_earnings_${fromDate}_${toDate}${expandedRange ? '_extended' : ''}`;
\* the engine calls getEarningsCalendar(null, null, true)
EarningsKey(fromDate, toDate, expandedRange, t) ==
    LET range == DateRange(fromDate, toDate, expandedRange, t) IN
    <<"fmp_earnings_", range.from, "_", range.to>>
        \o (IF expandedRange THEN <<"_extended">> ELSE <<>>)

\* Array.isArray(data)
CalendarOk(up) == up.ok /\ up.data.isArray

\* the environment's part in one calculateEPSGrowth call: the cache read,
\* then either the refusal of fmpLimiter.checkLimit() or the rejection of
\* fmpClient.get, or the eps fields, in cents, of the rows of the response
\* (eight quarters, and a single row), and the write of the store, whose
\* existence check succeeds
EpsInputs ==
    {[q |-> q, error |-> e, data |-> <<>>, cq |-> "ok", cw |-> cw] :
        q \in DbOutcomes, e \in {"refused", "http"}, cw \in DbOutcomes}
    \cup
    {[q |-> q, error |-> "", data |-> d, cq |-> "ok", cw |-> cw] :
        q \in DbOutcomes, cw \in DbOutcomes,
        d \in {<<112, 110, 108, 104, 100, 98, 96, 95>>, <<112>>}}

\* the environment's part in one getEarningsCalendar call, the nested
\* calculateEPSGrowth calls apart: the cache read, fmpLimiter.checkLimit() and
\* fmpClient.get('/earning_calendar'), and then either the stale read or the
\* two steps of the store.  The body of a 200 response is an array of rows
\* of the /earning_calendar response, where time "" is a missing field, or
\* something else.
CalendarInputs ==
    LET RawEarning(symbol, marketCap) ==
            [symbol |-> symbol, date |-> 5, revenue |-> 0,
             marketCap |-> marketCap, time |-> ""]
        CalendarResponses ==
            {[isArray |-> TRUE,
              rows |-> <<RawEarning(AAPL, 100000), RawEarning(BRKB, 100000)>>],
             [isArray |-> TRUE, rows |-> <<>>],
             [isArray |-> FALSE, rows |-> <<>>]}
        ups == Outcomes(CalendarResponses,
                        {Errors.fmpLimiter, Errors.http429, Errors.http500,
                         Errors.limitReach},
                        [isArray |-> FALSE, rows |-> <<>>])
    IN
    {[fromDate |-> NULL, toDate |-> NULL, expandedRange |-> TRUE,
      mock |-> FALSE, q |-> q, up |-> up, sq |-> "ok", cq |-> cq, cw |-> cw] :
        q \in DbOutcomes, up \in {o \in ups : CalendarOk(o)},
        cq \in DbOutcomes, cw \in DbOutcomes}
    \cup
    {[fromDate |-> NULL, toDate |-> NULL, expandedRange |-> TRUE,
      mock |-> FALSE, q |-> q, up |-> up, sq |-> sq, cq |-> "ok", cw |-> "ok"] :
        q \in DbOutcomes, up \in {o \in ups : ~CalendarOk(o)},
        sq \in DbOutcomes}

\* [...new Set(symbols)]: first occurrences, in order
RECURSIVE Distinct(_)
Distinct(seq) ==
    IF seq = <<>> THEN <<>>
    ELSE LET front == Distinct(SubSeq(seq, 1, Len(seq) - 1))
             x == seq[Len(seq)]
         IN  IF \E j \in 1..Len(front) : front[j] = x THEN front
             ELSE Append(front, x)

\* the symbols processEarningsData asks the EPS growth of
GrowthSymbols(rawData) ==
    LET filteredData == SelectSeq(rawData, LAMBDA earning : SymbolPassesFilter(earning.symbol)) IN
    Distinct([j \in 1..Len(filteredData) |-> filteredData[j].symbol])

\* `fmp_eps_growth_${symbol}`
EpsKey(symbol) == <<"fmp_eps_growth_">> \o symbol

\* ((currentEPS - yearAgoEPS) / Math.abs(yearAgoEPS)) * 100 of data[0] and
\* data[4], on figures that give a whole number; 0 on fewer than two rows
\* and on a year-ago figure that is missing or 0
EpsGrowthOf(data) ==
    LET currentEPS == data[1]
        yearAgoEPS == IF Len(data) >= 5 THEN data[5] ELSE 0
    IN  IF Len(data) < 2 \/ yearAgoEPS = 0 THEN 0
        ELSE ((currentEPS - yearAgoEPS) * 100)
                \div (IF yearAgoEPS < 0 THEN -yearAgoEPS ELSE yearAgoEPS)

calculateEPSGrowth_Truthy(table, symbol, t, in) ==
    LET cachedGrowth == getCachedData(table, EpsKey(symbol), t, in.q)
        growth == IF in.error = "" THEN EpsGrowthOf(in.data) ELSE 0
    IN  IF cachedGrowth.some /\ cachedGrowth.val # 0
        THEN [table |-> table, growth |-> cachedGrowth.val, hit |-> TRUE,
              upstream |-> FALSE, failed |-> FALSE]
        ELSE [table |-> Store(table, EpsKey(symbol), growth, t, EpsGrowthMinutes,
                              in.cq, in.cw),
              growth |-> growth, hit |-> FALSE,
              upstream |-> in.error # "refused", failed |-> in.error # ""]

\* calculateEPSGrowth(symbol) with an API key: the table it leaves, the
\* growth it returns, whether the cache answered, whether it went upstream
\* (fmpLimiter recorded a timestamp and fmpClient issued the request) and
\* whether the catch block ran.  Every path of a miss ends in
\* setCachedData(cacheKey, <what is returned>, 1440).
calculateEPSGrowth(table, symbol, t, in) ==
    LET cachedGrowth == getCachedData(table, EpsKey(symbol), t, in.q)
        growth == IF in.error = "" THEN EpsGrowthOf(in.data) ELSE 0
    IN  IF cachedGrowth.some
        THEN [table |-> table, growth |-> cachedGrowth.val, hit |-> TRUE,
              upstream |-> FALSE, failed |-> FALSE]
        ELSE [table |-> Store(table, EpsKey(symbol), growth, t, EpsGrowthMinutes,
                              in.cq, in.cw),
              growth |-> growth, hit |-> FALSE,
              upstream |-> in.error # "refused", failed |-> in.error # ""]

\* calculateEPSGrowthBatch(symbols, 5) from symbol j on: the table it leaves
\* and the growth of every symbol
RECURSIVE calculateEPSGrowthBatch(_, _, _, _, _, _)
calculateEPSGrowthBatch(table, symbols, j, t, ins, results) ==
    IF j > Len(symbols) THEN [table |-> table, results |-> results]
    ELSE LET call == calculateEPSGrowth(table, symbols[j], t, ins[symbols[j]])
         IN  calculateEPSGrowthBatch(
                 call.table, symbols, j + 1, t, ins,
                 [s \in DOMAIN results \cup {symbols[j]} |->
                     IF s = symbols[j] THEN call.growth ELSE results[s]])

\* processEarningsData(rawData), given the result of its
\* calculateEPSGrowthBatch call: the rows that pass the filter, each as a
\* processedEarning
processEarningsData(rawData, epsGrowthData) ==
    LET filteredData == SelectSeq(rawData, LAMBDA earning : SymbolPassesFilter(earning.symbol)) IN
    [j \in 1..Len(filteredData) |->
        [symbol |-> filteredData[j].symbol, date |-> filteredData[j].date,
         revenue |-> filteredData[j].revenue,
         epsGrowth |-> epsGrowthData[filteredData[j].symbol],
         marketCap |-> filteredData[j].marketCap,
         time |-> IF filteredData[j].time = "" THEN "bmo"
                  ELSE filteredData[j].time]]

\* error.status === 429 || error.message.includes('Limit Reach')
IsRateLimitError(error) ==
    error.status = 429 \/ error.message = Errors.limitReach.message

EarningsCalendarCatch_AbsorbAll(staleData, error) ==
    IF staleData.some THEN Returns(staleData.val) ELSE Returns(<<>>)

\* the catch block of getEarningsCalendar; staleData is read inside the if
EarningsCalendarCatch(staleData, error) ==
    IF IsRateLimitError(error)
    THEN IF staleData.some THEN Returns(staleData.val) ELSE Returns(<<>>)
    ELSE Throws(error)

\* getEarningsCalendar(in.fromDate, in.toDate, in.expandedRange); eps gives
\* the environment's part in the calculateEPSGrowth call of each symbol
getEarningsCalendar(table, t, in, eps) ==
    LET cacheKey == EarningsKey(in.fromDate, in.toDate, in.expandedRange, t)
        cachedData == getCachedData(table, cacheKey, t, in.q)
        error == IF in.up.ok THEN Errors.invalidFormat ELSE in.up.error
        growth == calculateEPSGrowthBatch(table, GrowthSymbols(in.up.data.rows),
                                          1, t, eps, <<>>)
        processedData == processEarningsData(in.up.data.rows, growth.results)
        staleData == getCachedData(table, StaleKey(cacheKey), t, in.sq)
        range == DateRange(in.fromDate, in.toDate, in.expandedRange, t)
        filteredData ==
            SelectSeq(mockEarningsData,
                      LAMBDA item : item.date >= range.from /\ item.date <= range.to)
    IN  IF cachedData.some
        THEN CallResult(table, TRUE, FALSE, FALSE, Err("", 0), NULL, <<>>,
                        Returns(cachedData.val))
        ELSE IF in.mock
        THEN CallResult(Store(table, cacheKey, filteredData, t,
                              CACHE_EARNINGS_MINUTES, in.cq, in.cw),
                        FALSE, FALSE, FALSE, Err("", 0), NULL,
                        FreshEntry(table, cacheKey, filteredData, in.cq, in.cw),
                        Returns(filteredData))
        ELSE IF CalendarOk(in.up)
        THEN CallResult(Store(growth.table, cacheKey, processedData, t,
                              CACHE_EARNINGS_MINUTES, in.cq, in.cw),
                        FALSE, TRUE, FALSE, Err("", 0), NULL,
                        FreshEntry(growth.table, cacheKey, processedData,
                                   in.cq, in.cw),
                        Returns(processedData))
        ELSE CallResult(table, FALSE, error # Errors.fmpLimiter, TRUE, error,
                        IF IsRateLimitError(error) THEN staleData ELSE NULL,
                        <<>>, EarningsCalendarCatch(staleData, error))

\* ---------------------------------------------- the EPS growth batches, step
\* by step.  calculateEPSGrowthBatch(symbols, batchSize) is called with an API
\* key and with distinct symbols.  batch.map(async ...) calls
\* calculateEPSGrowth for every symbol of the batch at once, and each call
\* runs on to its first await, the cache read; a lookup settles in one later
\* step, in any order.  delayed holds the index i of the batches whose
\* setTimeout has run out, first the symbol whose lookup settled first.
EpsBatchSize == 5        \* batchSize = 5

allSettled_Race(lookup, batch) == \E s \in batch : lookup[s] = "settled"

\* await Promise.allSettled(batchPromises) goes on
allSettled(lookup, batch) == \A s \in batch : lookup[s] = "settled"

\* one iteration of the for loop up to its first await: the lookups of the
\* batch at e.i are started, and then the delay is awaited if i > 0 and the
\* lookups otherwise
StartBatch(e) ==
    LET batch == Range(Slice(e.symbols, e.i, e.i + EpsBatchSize)) IN
    [e EXCEPT !.pc = IF e.i > 0 THEN "delay" ELSE "await",
              !.lookup = [s \in DOMAIN @ \cup batch |->
                            IF s \in batch THEN "started" ELSE @[s]]]

\* calculateEPSGrowthBatch(symbols, 5) up to its first await
EpsStart(symbols) ==
    /\ epsBatch.pc = "idle"
    /\ epsBatch' = StartBatch([epsBatch EXCEPT !.symbols = symbols])
    /\ UNCHANGED <<calc, now, cacheVars, engineVars, gw, multi, fetched, nElapse,
                   limiterVars>>

\* the lookup of a symbol settles: calculateEPSGrowth returns, or its error
\* is caught by the callback, which returns growth 0
EpsLookup(symbol, in) ==
    LET call == calculateEPSGrowth(api_cache, symbol, now, in) IN
    /\ symbol \in DOMAIN epsBatch.lookup
    /\ epsBatch.lookup[symbol] = "started"
    /\ api_cache' = call.table
    /\ epsBatch' = [epsBatch EXCEPT
                      !.lookup[symbol] = "settled",
                      !.first = IF @ = <<>> THEN <<symbol>> ELSE @,
                      !.growth = [s \in DOMAIN @ \cup {symbol} |->
                                    IF s = symbol THEN call.growth ELSE @[s]],
                      !.failed = IF call.failed THEN @ \cup {symbol} ELSE @]
    /\ UNCHANGED <<calc, now, setCall, lastGet, written, nWrites, engineVars, gw,
                   multi, fetched, nElapse, limiterVars>>

\* the setTimeout of 2000 + Math.random() * 1000 ms runs out
EpsDelay ==
    /\ epsBatch.pc = "delay"
    /\ epsBatch' = [epsBatch EXCEPT !.pc = "await", !.delayed = @ \cup {epsBatch.i}]
    /\ UNCHANGED <<calc, now, cacheVars, engineVars, gw, multi, fetched, nElapse,
                   limiterVars>>

\* Promise.allSettled resolves: the results of the fulfilled lookups are
\* stored and the loop goes on to its next iteration, or the call returns
EpsJoin ==
    LET batch == Range(Slice(epsBatch.symbols, epsBatch.i, epsBatch.i + EpsBatchSize))
        fulfilled == {s \in batch : epsBatch.lookup[s] = "settled"}
        next == [epsBatch EXCEPT
                    !.i = @ + EpsBatchSize,
                    !.results = [s \in DOMAIN @ \cup fulfilled |->
                                    IF s \in fulfilled THEN epsBatch.growth[s]
                                    ELSE @[s]]]
    IN
    /\ epsBatch.pc = "await"
    /\ allSettled(epsBatch.lookup, batch)
    /\ epsBatch' = IF next.i < Len(next.symbols) THEN StartBatch(next)
                   ELSE [next EXCEPT !.pc = "done"]
    /\ UNCHANGED <<calc, now, cacheVars, engineVars, gw, multi, fetched, nElapse,
                   limiterVars>>

\* ------------------------------------------------------------ gateway state
Remember(entries, fresh) ==
    {f \in entries : \A j \in 1..Len(fresh) : fresh[j].cache_key # f.cache_key}
        \cup {fresh[j] : j \in 1..Len(fresh)}

\* the record of a gateway call made at the time now; read is the outcome of
\* the query of its cache read, prior the data a gateway last stored under the key,
\* if any, expired says that no unexpired row was under the key when the call
\* began, and stored that a setCachedData call of it returned true
CallRecord(fn, key, q, call) ==
    [called |-> TRUE, fn |-> fn, key |-> key, at |-> now, read |-> q,
     stored |-> call.fresh # <<>>,
     prior |-> IF \E f \in fetched : f.cache_key = key
               THEN Some((CHOOSE f \in fetched : f.cache_key = key).data)
               ELSE NULL,
     expired |-> SelectUnexpired(api_cache, key, now) = {},
     hit |-> call.hit, upstream |-> call.upstream, failed |-> call.failed, error |-> call.error,
     stale |-> call.stale, res |-> call.res]

\* one whole getStockPrice(symbol) call
GetStockPrice(symbol, in) ==
    LET call == getStockPrice(api_cache, symbol, now, in) IN
    /\ api_cache' = call.table
    /\ gw' = CallRecord("getStockPrice", StockKey(symbol), in.q, call)
    /\ fetched' = Remember(fetched, call.fresh)
    /\ UNCHANGED <<calc, epsBatch, now, setCall, lastGet, written, nWrites, engineVars, multi,
                   nElapse, limiterVars>>

\* one whole getOptionsChain(symbol) call
GetOptionsChain(symbol, in) ==
    LET call == getOptionsChain(api_cache, symbol, now, in) IN
    /\ api_cache' = call.table
    /\ gw' = CallRecord("getOptionsChain", OptionsKey(symbol), in.q, call)
    /\ fetched' = Remember(fetched, call.fresh)
    /\ UNCHANGED <<calc, epsBatch, now, setCall, lastGet, written, nWrites, engineVars, multi,
                   nElapse, limiterVars>>

PushError_Drop(errors, symbol, error) == errors

\* errors.push({ symbol, error: error.message })
PushError(errors, symbol, error) ==
    Append(errors, [symbol |-> symbol, error |-> error.message])

\* getMultipleOptionsChains(symbols) up to its first getOptionsChain call
MultiStart(symbols) ==
    /\ multi.pc = "idle"
    /\ multi' = [multi EXCEPT !.pc = "loop", !.symbols = symbols, !.i = 1]
    /\ UNCHANGED <<calc, epsBatch, now, cacheVars, engineVars, gw, fetched, nElapse, limiterVars>>

\* one iteration of the loop of getMultipleOptionsChains; the last iteration
\* runs on to the return
MultiStep(in) ==
    LET symbol == multi.symbols[multi.i]
        call == getOptionsChain(api_cache, symbol, now, in)
        last == multi.i = Len(multi.symbols)
    IN
    /\ multi.pc = "loop"
    /\ api_cache' = call.table
    /\ gw' = CallRecord("getOptionsChain", OptionsKey(symbol), in.q, call)
    /\ fetched' = Remember(fetched, call.fresh)
    /\ multi' = [multi EXCEPT
                   !.pc = IF last THEN "done" ELSE "loop",
                   !.i = @ + 1,
                   !.attempts = Append(@, symbol),
                   !.results = IF call.res.kind = "return"
                               THEN [s \in DOMAIN @ \cup {symbol} |->
                                        IF s = symbol THEN call.res.value.val
                                        ELSE @[s]]
                               ELSE @,
                   !.errors = IF call.res.kind = "throw"
                              THEN PushError(@, symbol, call.res.error)
                              ELSE @,
                   !.outcome = IF last THEN "return" ELSE @]
    /\ UNCHANGED <<calc, epsBatch, now, setCall, lastGet, written, nWrites, engineVars, nElapse, limiterVars>>

\* the clock runs on to the moment an entry of the table expires
Elapse ==
    /\ nElapse < MaxElapses
    /\ \E r \in api_cache : r.expires_at > now /\ now' = r.expires_at
    /\ nElapse' = nElapse + 1
    /\ UNCHANGED <<calc, epsBatch, cacheVars, engineVars, gw, multi, fetched, limiterVars>>

\* No call of the application writes a `_stale` key; such a row is put in the
\* table, for a day, by another client of the database, which the table's
\* policies allow.
StaleWrite(k, v) ==
    /\ ~\E r \in api_cache : r.cache_key = StaleKey(k)
    /\ api_cache' = api_cache \cup
           {[cache_key |-> StaleKey(k), data |-> v, expires_at |-> now + DayMs]}
    /\ UNCHANGED <<calc, now, setCall, lastGet, written, nWrites, engineVars,
                   gatewayVars, limiterVars>>

\* the rows that client writes: earlier results of the gateways
StaleCopies ==
    {<<StockKey(s), [status |-> "OK", results |-> <<[c |-> 9900]>>]>> :
        s \in GatewaySymbols}
    \cup
    {<<OptionsKey(s),
       processOptionsData(CHOOSE d \in SnapshotResponses : d.status = "OK",
                          s, 9900, 0)>> : s \in GatewaySymbols}
    \cup
    {<<EarningsKey(NULL, NULL, TRUE, now),
       <<[symbol |-> XY, date |-> 4, revenue |-> 0, epsGrowth |-> 0,
          marketCap |-> 10000, time |-> "bmo"]>>>>}

\* one whole getEarningsCalendar call
GetEarningsCalendar(in, eps) ==
    LET call == getEarningsCalendar(api_cache, now, in, eps) IN
    /\ api_cache' = call.table
    /\ gw' = CallRecord("getEarningsCalendar",
                        EarningsKey(in.fromDate, in.toDate, in.expandedRange, now),
                        in.q, call)
    /\ fetched' = Remember(fetched, call.fresh)
    /\ UNCHANGED <<calc, epsBatch, now, setCall, lastGet, written, nWrites, engineVars, multi,
                   nElapse, limiterVars>>

\* one whole calculateEPSGrowth(symbol) call
CalculateEPSGrowth(symbol, in) ==
    LET call == calculateEPSGrowth(api_cache, symbol, now, in) IN
    /\ api_cache' = call.table
    /\ gw' = CallRecord("calculateEPSGrowth", EpsKey(symbol), in.q,
                        CallResult(call.table, call.hit, call.upstream, call.failed,
                                   Err("", 0), NULL,
                                   IF call.hit THEN <<>>
                                   ELSE FreshEntry(api_cache, EpsKey(symbol),
                                                   call.growth, in.cq, in.cw),
                                   Returns(call.growth)))
    /\ fetched' = Remember(fetched, IF call.hit THEN <<>>
                                    ELSE FreshEntry(api_cache, EpsKey(symbol),
                                                    call.growth, in.cq, in.cw))
    /\ UNCHANGED <<calc, epsBatch, now, setCall, lastGet, written, nWrites, engineVars, multi,
                   nElapse, limiterVars>>

\* ============================================================ rate limiter
\* A limiter built as new RateLimiter(maxRequests, 60000, name), used by the
\* callers of LimiterCallers; the clock of its specification advances in
\* steps of a third of the window.
WindowMs == 60000
MaxRetries == 3
BaseRetryDelay == 2000
LimiterCallers == {1, 2, 3, 4}
\* (0.5 + Math.random() * 0.5), in hundredths; on this clock the wait for the
\* oldest entry is never shorter than the backoff delay
Jitters == {50, 100}

RECURSIVE Pow2(_)
Pow2(n) == IF n = 0 THEN 1 ELSE 2 * Pow2(n - 1)

\* Math.min(...this.requests) of a non-empty array
Oldest(requests) ==
    CHOOSE x \in Range(requests) : \A y \in Range(requests) : x <= y

InWindow_KeepBoundary(requests, t) ==
    SelectSeq(requests, LAMBDA time : time >= t - WindowMs)

\* this.requests.filter(time => time > windowStart)
InWindow(requests, t) ==
    SelectSeq(requests, LAMBDA time : time > t - WindowMs)

IsLimited_OneMore(requests) == Len(requests) > maxRequests

\* this.requests.length >= this.maxRequests
IsLimited(requests) == Len(requests) >= maxRequests

checkLimit_BackoffOnly(lim, t, jitter) ==
    LET requests == InWindow(lim.requests, t)
        backoffDelay ==
            (BaseRetryDelay * Pow2(lim.retryCount) * jitter) \div 100
    IN  IF IsLimited(requests)
        THEN IF lim.retryCount >= MaxRetries
             THEN [limiter |-> [requests |-> requests, retryCount |-> 0],
                   outcome |-> "throw", delay |-> 0]
             ELSE [limiter |-> [requests |-> requests,
                                retryCount |-> lim.retryCount + 1],
                   outcome |-> "sleep", delay |-> backoffDelay]
        ELSE [limiter |-> [requests |-> Append(requests, t), retryCount |-> 0],
              outcome |-> "true", delay |-> 0]

\* one pass through checkLimit() at clock t, up to its return, its throw or
\* its await: the limiter it leaves, how the pass ends, and the delay of the
\* sleep
checkLimit(lim, t, jitter) ==
    LET requests == InWindow(lim.requests, t)
        waitTime == WindowMs - (t - Oldest(requests))
        backoffDelay ==
            (BaseRetryDelay * Pow2(lim.retryCount) * jitter) \div 100
        totalDelay == Max(waitTime, backoffDelay)
    IN  IF IsLimited(requests)
        THEN IF lim.retryCount >= MaxRetries
             THEN [limiter |-> [requests |-> requests, retryCount |-> 0],
                   outcome |-> "throw", delay |-> 0]
             ELSE [limiter |-> [requests |-> requests,
                                retryCount |-> lim.retryCount + 1],
                   outcome |-> "sleep", delay |-> totalDelay]
        ELSE [limiter |-> [requests |-> Append(requests, t), retryCount |-> 0],
              outcome |-> "true", delay |-> 0]

isInBackoff_AfterThrow(lim, outcome) ==
    lim.retryCount > 0 \/ outcome = "throw"

\* isInBackoff(), called right after a pass of checkLimit() that ended with
\* outcome, or at any other time (outcome "none")
isInBackoff(lim, outcome) == lim.retryCount > 0

\* getUsage() at clock t, resetTime apart
getUsage(lim, t) ==
    LET currentRequests == SelectSeq(lim.requests, LAMBDA time : time > t - WindowMs) IN
    [current |-> Len(currentRequests), max |-> maxRequests,
     remaining |-> maxRequests - Len(currentRequests),
     retryCount |-> lim.retryCount]

\* one pass of caller c through checkLimit(), with the record of the pass:
\* the timestamps recorded in the window that trails the pass, the oldest
\* entry of this.requests, and the sleeps of the call so far
CheckPass(c, entry, jitter) ==
    LET pass == checkLimit(limiter, now, jitter)
        sleeps == limCall[c].sleeps + (IF pass.outcome = "sleep" THEN 1 ELSE 0)
    IN
    /\ limiter' = pass.limiter
    /\ limCall' = [limCall EXCEPT ![c] =
                     IF pass.outcome = "sleep"
                     THEN [pc |-> "sleeping", wakeAt |-> now + pass.delay,
                           sleeps |-> sleeps]
                     ELSE [pc |-> "idle", wakeAt |-> 0, sleeps |-> 0]]
    /\ limLog' = [recorded |-> IF pass.outcome = "true"
                               THEN Append(limLog.recorded, now)
                               ELSE limLog.recorded,
                  reset |-> limLog.reset,
                  last |-> [called |-> TRUE, caller |-> c, entry |-> entry,
                            at |-> now, window |-> limLog.recorded,
                            oldest |-> IF limiter.requests = <<>> THEN NULL
                                       ELSE Some(Oldest(limiter.requests)),
                            outcome |-> pass.outcome, sleeps |-> sleeps]]

\* a caller calls checkLimit()
LimiterCall(c, jitter) ==
    /\ limCall[c].pc = "idle"
    /\ CheckPass(c, "call", jitter)
    /\ UNCHANGED <<calc, now, cacheVars, engineVars, gatewayVars, request>>

\* the timer of a sleeping caller fires and the call recurses
LimiterWake(c, jitter) ==
    /\ limCall[c].pc = "sleeping"
    /\ now >= limCall[c].wakeAt
    /\ CheckPass(c, "wake", jitter)
    /\ UNCHANGED <<calc, now, cacheVars, engineVars, gatewayVars, request>>

\* reset(), which is called at most once, at any moment; lastReset is read
\* nowhere.  The record of the limiter starts afresh with it.
LimiterReset ==
    /\ ~limLog.reset
    /\ limiter' = [requests |-> <<>>, retryCount |-> 0]
    /\ limLog' = [recorded |-> <<>>, reset |-> TRUE,
                  last |-> [called |-> TRUE, caller |-> 0, entry |-> "reset",
                            at |-> now, window |-> <<>>,
                            oldest |-> NULL, outcome |-> "reset", sleeps |-> 0]]
    /\ UNCHANGED <<calc, now, cacheVars, engineVars, gatewayVars, limCall, request>>

\* the clock of the limiter; limLog.recorded keeps the timestamps recorded
\* within the trailing window
TickLimiter ==
    /\ now < MaxSteps * (WindowMs \div 3)
    /\ now' = now + WindowMs \div 3
    /\ limLog' = [limLog EXCEPT !.recorded =
                     SelectSeq(@, LAMBDA time : time > now' - WindowMs)]
    /\ UNCHANGED <<calc, cacheVars, engineVars, gatewayVars, limiter, limCall, request>>

\* -------------------------------------------------------------- API client
\* An APIClient built with the limiter as its rateLimiter; request() is called
\* with the default maxRetries; its checkLimit() call is that of caller 0.
RequestMaxRetries == 3

\* resp is the response of the last attempt and thrown the status of the
\* error request() threw
IdleRequest ==
    [pc |-> "idle", attempt |-> 0, fetches |-> 0, acquired |-> 0,
     wakeAt |-> 0, outcome |-> "none", resp |-> NULL, thrown |-> NULL]

\* request() after a pass through the checkLimit() call of its line 37
AfterLimit(req, outcome) ==
    IF outcome = "true"
    THEN [req EXCEPT !.pc = "fetch", !.acquired = @ + 1]
    ELSE IF outcome = "sleep" THEN [req EXCEPT !.pc = "limit"]
    ELSE [req EXCEPT !.pc = "done", !.outcome = "threw"]

\* a gateway of the earnings module on its way to fmpClient.get(): one pass
\* through its own `await fmpLimiter.checkLimit()`, which is that of caller 1,
\* at the call or when the timer of its sleep fires; request.acquired counts
\* the timestamps recorded for the upstream request
GatewayLimit(jitter) ==
    /\ \/ request.pc \in {"idle", "done"}
       \/ request.pc = "gateway" /\ now >= limCall[1].wakeAt
    /\ CheckPass(1, IF request.pc = "gateway" THEN "wake" ELSE "call", jitter)
    /\ request' =
         LET req == IF request.pc = "gateway" THEN request ELSE IdleRequest
             outcome == checkLimit(limiter, now, jitter).outcome
         IN  IF outcome = "true"
             THEN [req EXCEPT !.pc = "get", !.acquired = @ + 1]
             ELSE IF outcome = "sleep" THEN [req EXCEPT !.pc = "gateway"]
             ELSE [req EXCEPT !.pc = "done", !.outcome = "threw"]
    /\ UNCHANGED <<calc, now, cacheVars, engineVars, gatewayVars>>

\* request() from its call, by a caller of its own or by a gateway that has
\* passed its checkLimit() (pc "get"), to the end of the first pass through
\* checkLimit()
RequestStart(jitter) ==
    /\ request.pc \in {"idle", "done", "get"}
    /\ CheckPass(0, "call", jitter)
    /\ request' = AfterLimit(IF request.pc = "get" THEN request ELSE IdleRequest,
                             checkLimit(limiter, now, jitter).outcome)
    /\ UNCHANGED <<calc, now, cacheVars, engineVars, gatewayVars>>

\* the timer of the sleeping checkLimit() call of request() fires
RequestWake(jitter) ==
    /\ request.pc = "limit"
    /\ now >= limCall[0].wakeAt
    /\ CheckPass(0, "wake", jitter)
    /\ request' = AfterLimit(request, checkLimit(limiter, now, jitter).outcome)
    /\ UNCHANGED <<calc, now, cacheVars, engineVars, gatewayVars>>

RequestFetch_RetriesClientErrors(resp) ==
    /\ request.pc = "fetch"
    /\ now >= request.wakeAt
    /\ request' =
         LET fetched1 == [request EXCEPT !.fetches = @ + 1, !.resp = Some(resp)]
             ok == resp.status >= 200 /\ resp.status < 300
         IN
         IF ok /\ resp.body = "data"
         THEN [fetched1 EXCEPT !.pc = "done", !.outcome = "returned"]
         ELSE IF request.attempt = RequestMaxRetries
         THEN [fetched1 EXCEPT !.pc = "done", !.outcome = "threw",
                               !.thrown = Some(resp.status)]
         ELSE [fetched1 EXCEPT
                 !.attempt = @ + 1,
                 !.wakeAt = now + Min(1000 * Pow2(request.attempt), 10000)]
    /\ UNCHANGED <<calc, now, cacheVars, engineVars, gatewayVars, limiter, limCall,
                   limLog>>

\* one iteration of the retry loop of request(): the fetch, and on an error
\* the throw or the start of the delay before the next attempt.  resp is what
\* the attempt comes to: status 0 when fetch or response.json() throws an
\* error, which has no status, else the HTTP status, and for an ok response
\* its body: "error" when data.error is truthy, "ERROR" when data.status is
\* 'ERROR', else "data"; the APIError of a bad body carries the HTTP status
RequestFetch(resp) ==
    /\ request.pc = "fetch"
    /\ now >= request.wakeAt
    /\ request' =
         LET fetched1 == [request EXCEPT !.fetches = @ + 1, !.resp = Some(resp)]
             ok == resp.status >= 200 /\ resp.status < 300
         IN
         IF ok /\ resp.body = "data"
         THEN [fetched1 EXCEPT !.pc = "done", !.outcome = "returned"]
         ELSE IF resp.status >= 400 /\ resp.status < 500 /\ resp.status # 429
         THEN [fetched1 EXCEPT !.pc = "done", !.outcome = "threw",
                               !.thrown = Some(resp.status)]
         ELSE IF request.attempt = RequestMaxRetries
         THEN [fetched1 EXCEPT !.pc = "done", !.outcome = "threw",
                               !.thrown = Some(resp.status)]
         ELSE [fetched1 EXCEPT
                 !.attempt = @ + 1,
                 !.wakeAt = now + Min(1000 * Pow2(request.attempt), 10000)]
    /\ UNCHANGED <<calc, now, cacheVars, engineVars, gatewayVars, limiter, limCall,
                   limLog>>

\* ------------------------------------------------------------- engine state

\* getCachedRecommendations(): q is the outcome of the supabase query
getCachedRecommendations(table, q) ==
    LET active == SelectSeq(table, LAMBDA row : row.is_active)
        keyed == [j \in 1..Len(active) |->
                    [key |-> active[j].rec.confidence_score, row |-> active[j]]]
        top == Slice(SortDesc(keyed), 0, TopN)
    IN  IF q # "ok" THEN <<>> ELSE [j \in 1..Len(top) |-> top[j].row]

Return(list) == [kind |-> "return", list |-> list]
Throw == [kind |-> "throw", list |-> <<>>]

EarningsCatch_Rethrow(message, cachedRecommendations) == Throw

\* the catch block around the earnings fetch; the first test is
\* error.message.includes('rate limit') || error.message.includes('429')
EarningsCatch(message, cachedRecommendations) ==
    IF message = LimiterRefusal THEN Return(cachedRecommendations)
    ELSE IF Len(cachedRecommendations) > 0 THEN Return(cachedRecommendations)
    ELSE Throw

FallbackCatch_AlwaysThrow(fallbackRecommendations) == Throw

\* the outer catch block, after its getCachedRecommendations read
FallbackCatch(fallbackRecommendations) ==
    IF Len(fallbackRecommendations) > 0 THEN Return(fallbackRecommendations)
    ELSE Throw

IdleRun ==
    [pc |-> "idle", cachedRecommendations |-> <<>>, earningsData |-> <<>>,
     symbols |-> <<>>, i |-> 0, recs |-> <<>>, error |-> "", fallback |-> NULL,
     outcome |-> "none", result |-> <<>>, fresh |-> FALSE,
     startActive |-> <<>>, readOk |-> TRUE, chains |-> 0, writes |-> 0,
     failed |-> {}, priced |-> {}, candidates |-> {},
     activeAtReturn |-> [gens |-> {}, count |-> 0]]

Init ==
    /\ now = 0
    /\ api_cache = {}
    /\ setCall = [c \in Callers |-> Idle]
    /\ lastGet = [called |-> FALSE]
    /\ written = [k \in CacheKeys |-> NULL]
    /\ nWrites = 0
    /\ recommendations = <<>>
    /\ criteria = DefaultCriteria
    /\ run = [r \in Runs |-> IdleRun]
    /\ gw = [called |-> FALSE]
    /\ multi = [pc |-> "idle", symbols |-> <<>>, i |-> 0, results |-> <<>>,
                errors |-> <<>>, attempts |-> <<>>, outcome |-> "none"]
    /\ fetched = {}
    /\ nElapse = 0
    /\ limiter = [requests |-> <<>>, retryCount |-> 0]
    /\ limCall = [c \in LimiterCallers \cup {0} |->
                    [pc |-> "idle", wakeAt |-> 0, sleeps |-> 0]]
    /\ limLog = [recorded |-> <<>>, reset |-> FALSE, last |-> [called |-> FALSE]]
    /\ request = IdleRequest
    /\ epsBatch = [pc |-> "idle", symbols |-> <<>>, i |-> 0, lookup |-> <<>>,
                   growth |-> <<>>, results |-> <<>>, failed |-> {},
                   delayed |-> {}, first |-> <<>>]
    /\ calc = [fn |-> "none"]

\* ----------------------------------------------------------- engine actions
LatestKey == <<"latest_recommendations">>
LatestTtl == 60          \* setCachedData('latest_recommendations', ..., 60)

\* setCachedData('latest_recommendations', recs, 60) as one step: cq and cw are
\* the outcomes of its existence check and of its write
CacheLatest(recs, cq, cw) ==
    WriteTable(api_cache, LatestKey, recs, ExpiresAt(now, LatestTtl),
               ExistingData(api_cache, LatestKey, cq), cw)

Finish(rec, res) ==
    [rec EXCEPT !.pc = "done", !.symbols = <<>>, !.i = 0, !.recs = <<>>,
                !.outcome = IF res.kind = "return" THEN "returned" ELSE "threw",
                !.result = res.list]

\* lines 43-51: the call starts and reads the active set
GenStart(r, q) ==
    /\ run[r].pc = "idle"
    /\ run' = [run EXCEPT ![r] =
                 [IdleRun EXCEPT !.pc = "earnings",
                    !.cachedRecommendations = getCachedRecommendations(recommendations, q),
                    !.startActive = SelectSeq(recommendations, LAMBDA row : row.is_active),
                    !.readOk = (q = "ok"),
                    !.failed = IF q = "ok" THEN {} ELSE {"read"}]]
    /\ UNCHANGED <<calc, now, cacheVars, recommendations, criteria, gatewayVars, limiterVars>>

\* lines 125-152: sort, slice, and either go on to save or return the cached set
AfterBatches(rec, recs) ==
    LET sortedRecommendations == SortAndSlice(recs) IN
    IF Len(sortedRecommendations) > 0
    THEN [rec EXCEPT !.pc = "deactivate", !.recs = sortedRecommendations,
                     !.candidates = Range(recs)]
    ELSE Finish(rec, Return(rec.cachedRecommendations))

\* lines 53-95: the earnings fetch, its catch block, the empty check and
\* prioritizeSymbols
GenEarnings(r, out) ==
    LET rec == run[r]
        symbols == prioritizeSymbols(criteria, out.data)
    IN
    /\ rec.pc = "earnings"
    /\ run' = [run EXCEPT ![r] =
         IF out.threw
         THEN LET res == EarningsCatch(out.error, rec.cachedRecommendations)
                  failedRec == [rec EXCEPT !.error = out.error,
                                           !.failed = @ \cup {"earnings"}]
              IN  IF res.kind = "return" THEN Finish(failedRec, res)
                  ELSE [failedRec EXCEPT !.pc = "fallback"]
         ELSE IF Len(out.data) = 0
         THEN Finish(rec, Return(rec.cachedRecommendations))
         ELSE IF Len(symbols) = 0
         THEN AfterBatches([rec EXCEPT !.earningsData = out.data], <<>>)
         ELSE [rec EXCEPT !.pc = "batch", !.earningsData = out.data,
                          !.symbols = symbols, !.i = 0]]
    /\ UNCHANGED <<calc, now, cacheVars, recommendations, criteria, gatewayVars, limiterVars>>

\* lines 102-123: one iteration of the batch loop
GenBatch(r, outs) ==
    LET rec == run[r]
        batch == Slice(rec.symbols, rec.i, rec.i + BatchSize)
        batchRecommendations == processBatch(criteria, batch, rec.earningsData, outs, now)
        next == [rec EXCEPT !.i = @ + BatchSize,
                            !.recs = @ \o batchRecommendations,
                            !.chains = @ + Len(batch),
                            !.priced = @ \cup {batch[j] : j \in
                                {m \in DOMAIN outs :
                                    outs[m].ok /\ outs[m].chain.underlyingPrice > 0}},
                            !.failed = IF \E j \in DOMAIN outs : ~outs[j].ok
                                       THEN @ \cup {"options"} ELSE @]
    IN
    /\ rec.pc = "batch"
    /\ DOMAIN outs = 1..Len(batch)
    /\ run' = [run EXCEPT ![r] =
                 IF next.i < Len(rec.symbols) THEN next
                 ELSE AfterBatches(next, next.recs)]
    /\ UNCHANGED <<calc, now, cacheVars, recommendations, criteria, gatewayVars, limiterVars>>

\* saveRecommendations lines 521-535: the deactivate step; when the query
\* throws, the catch block caches the list and rethrows to the outer catch
SaveDeactivate(r, u, cq, cw) ==
    LET rec == run[r] IN
    /\ rec.pc = "deactivate"
    /\ recommendations' =     \* .update({ is_active: false }).eq('is_active', true)
         IF u = "ok"
         THEN [j \in 1..Len(recommendations) |->
                  [recommendations[j] EXCEPT !.is_active = FALSE]]
         ELSE recommendations
    /\ api_cache' = IF u = "throws" THEN CacheLatest(rec.recs, cq, cw) ELSE api_cache
    /\ run' = [run EXCEPT ![r] =
                 IF u = "ok" THEN [rec EXCEPT !.pc = "insert", !.writes = @ + 1]
                 ELSE IF u = "error"
                 THEN [rec EXCEPT !.pc = "insert", !.failed = @ \cup {"deactivate"}]
                 ELSE [rec EXCEPT !.pc = "fallback", !.error = "updateThrew",
                                  !.failed = @ \cup {"deactivate"}]]
    /\ UNCHANGED <<calc, now, setCall, lastGet, written, nWrites, criteria, gatewayVars, limiterVars>>

\* saveRecommendations lines 537-567 and the return of line 147: the insert
\* step and the cache write that follows it on success and on failure;
\* activeAtReturn notes which calls inserted the rows that are active when the
\* run returns, and how many they are
SaveInsert(r, w, cq, cw) ==
    LET rec == run[r]
        \* .insert(recommendations): every recommendation object has
        \* is_active: true
        InsertRows ==
            recommendations \o [j \in 1..Len(rec.recs) |->
                [gen |-> r, rec |-> rec.recs[j], is_active |-> TRUE]]
        active == SelectSeq(InsertRows, LAMBDA row : row.is_active)
    IN
    /\ rec.pc = "insert"
    /\ recommendations' = IF w = "ok" THEN InsertRows
                          ELSE recommendations
    /\ api_cache' = CacheLatest(rec.recs, cq, cw)
    /\ run' = [run EXCEPT ![r] =
                 IF w = "ok"
                 THEN Finish([rec EXCEPT !.writes = @ + 1, !.fresh = TRUE,
                                 !.activeAtReturn =
                                     [gens |-> {active[j].gen : j \in 1..Len(active)},
                                      count |-> Len(active)]],
                             Return(rec.recs))
                 ELSE [rec EXCEPT !.pc = "fallback", !.error = "insertError",
                                  !.failed = @ \cup {"insert"}]]
    /\ UNCHANGED <<calc, now, setCall, lastGet, written, nWrites, criteria, gatewayVars, limiterVars>>

\* lines 154-165: the outer catch block
GenFallback(r, q) ==
    LET rec == run[r]
        fallbackRecommendations == getCachedRecommendations(recommendations, q)
    IN
    /\ rec.pc = "fallback"
    /\ run' = [run EXCEPT ![r] =
                 Finish([rec EXCEPT !.fallback = Some(fallbackRecommendations),
                                    !.failed = IF q = "ok" THEN @ ELSE @ \cup {"read"}],
                        FallbackCatch(fallbackRecommendations))]
    /\ UNCHANGED <<calc, now, cacheVars, recommendations, criteria, gatewayVars, limiterVars>>

Next ==
    \/ \E r \in Runs, q \in QueryOutcomes : GenStart(r, q)
    \/ \E r \in Runs, out \in EarningsOutcomes : GenEarnings(r, out)
    \/ \E r \in Runs, n \in 1..2 : \E outs \in [1..n -> ChainOutcomes] : GenBatch(r, outs)
    \/ \E r \in Runs, u \in QueryOutcomes, cq \in DbOutcomes, cw \in DbOutcomes :
          SaveDeactivate(r, u, cq, cw)
    \/ \E r \in Runs, w \in QueryOutcomes, cq \in DbOutcomes, cw \in DbOutcomes :
          SaveInsert(r, w, cq, cw)
    \/ \E r \in Runs, q \in QueryOutcomes : GenFallback(r, q)

Spec == Init /\ [][Next]_vars

\* C1: a run whose earnings fetch throws the rate-limit error while the table
\* holds a non-empty active set returns, without throwing, the list its
\* opening read produced (every active row, when that read succeeded), after
\* no options fetch and no write to the recommendations table.
C1_RateLimitReturnsPriorSet ==
    \A r \in Runs :
        LET rec == run[r] IN
        (rec.pc = "done" /\ rec.error = LimiterRefusal /\ rec.startActive # <<>>) =>
            /\ rec.outcome = "returned"
            /\ rec.result = rec.cachedRecommendations
            /\ (rec.readOk /\ Len(rec.startActive) <= TopN) =>
                   /\ Range(rec.result) = Range(rec.startActive)
                   /\ Len(rec.result) = Len(rec.startActive)
            /\ rec.chains = 0
            /\ rec.writes = 0

\* C1 witness: such a run has returned a non-empty prior set.
C1_Witness ==
    \E r \in Runs :
        /\ run[r].pc = "done" /\ run[r].error = LimiterRefusal
        /\ run[r].startActive # <<>> /\ run[r].readOk
        /\ run[r].outcome = "returned" /\ run[r].result # <<>>

\* C2: a run that starts with a non-empty active set and in which only the
\* earnings fetch, options fetches or the insert step fail ends by returning
\* a non-empty list.
C2_NeverEmptyAfterPriorSet ==
    \A r \in Runs :
        LET rec == run[r] IN
        (/\ rec.pc = "done"
         /\ rec.startActive # <<>>
         /\ rec.failed \subseteq {"earnings", "options", "insert"}) =>
            rec.outcome = "returned" /\ rec.result # <<>>

\* C3: all active rows of the recommendations table were inserted by the same
\* saveRecommendations call.
C3_OneActiveGeneration ==
    \A j, k \in 1..Len(recommendations) :
        (recommendations[j].is_active /\ recommendations[k].is_active) =>
            recommendations[j].gen = recommendations[k].gen

\* C4: a run ends by throwing only after a stage failed and the fallback read
\* of the outer catch block returned the empty list; a run that a failure
\* kept from returning a fresh list returns what getCachedRecommendations
\* read: the fallback read when the outer catch block ran, the opening read
\* otherwise.
C4_ThrowsOnlyOnTotalFailure ==
    \A r \in Runs :
        LET rec == run[r] IN
        rec.pc = "done" =>
            /\ rec.outcome = "threw" =>
                   /\ rec.failed \cap {"earnings", "deactivate", "insert"} # {}
                   /\ rec.fallback = Some(<<>>)
            /\ (rec.outcome = "returned" /\ ~rec.fresh /\ rec.failed # {}) =>
                   rec.result = IF rec.fallback.some THEN rec.fallback.val
                                ELSE rec.cachedRecommendations

\* C4 witness: a run threw after its insert failed and the fallback read was
\* empty.
C4_Witness ==
    \E r \in Runs :
        /\ run[r].pc = "done" /\ run[r].outcome = "threw"
        /\ "insert" \in run[r].failed
        /\ run[r].fallback = Some(<<>>)

NextCache ==
    \/ \E c \in Callers, k \in CacheKeys, v \in {"v1", "v2"},
          expirationMinutes \in {1, 2}, q \in QueryOutcomes :
            CacheSetBegin(c, k, v, expirationMinutes, q)
    \/ \E c \in Callers, w \in QueryOutcomes : CacheSetEnd(c, w)
    \/ \E k \in CacheKeys, q \in QueryOutcomes : CacheGet(k, q)
    \/ TickCache

SpecCache == Init /\ [][NextCache]_vars

\* C9: getCachedData(key) returns the stored value exactly when the query
\* succeeds and the table holds a row for key whose expires_at is strictly
\* later than the time of the call; a missing row, an expired row, a reported
\* query error and a thrown query all give null, and the call never throws.
C9_GetReturnsUnexpiredOnly ==
    lastGet.called =>
        LET live == {r \in lastGet.rows : r.expires_at > lastGet.at} IN
        /\ ~lastGet.threw
        /\ (lastGet.query = "ok" /\ live # {}) =>
               \A r \in live : lastGet.result = Some(r.data)
        /\ (lastGet.query # "ok" \/ live = {}) => lastGet.result = NULL

\* C9 witness: a call made while the row for the key had not yet expired
\* returned its value, after the clock had moved.
C9_Witness ==
    /\ lastGet.called
    /\ lastGet.at > 0
    /\ lastGet.query = "ok"
    /\ \E r \in lastGet.rows :
          r.expires_at > lastGet.at /\ lastGet.result = Some(r.data)

\* C10: after a setCachedData(key, v, ttl) that returned true, a
\* getCachedData(key) whose query succeeds returns v while the clock is before
\* the expires_at of that call, whether the call inserted the row or
\* overwrote an earlier row, and returns null once the clock is past it.
C10_RoundTrip ==
    (lastGet.called /\ lastGet.query = "ok" /\ lastGet.after.some) =>
        LET s == lastGet.after.val IN
        /\ lastGet.at < s.expires_at => lastGet.result = Some(s.data)
        /\ lastGet.at > s.expires_at => lastGet.result = NULL

\* C10 witness: the set took the update path (a row for the key existed) and
\* the get that followed, before the new expiry, returned the new value.
C10_Witness ==
    /\ lastGet.called /\ lastGet.query = "ok" /\ lastGet.after.some
    /\ lastGet.after.val.existed
    /\ lastGet.at < lastGet.after.val.expires_at
    /\ lastGet.result = Some(lastGet.after.val.data)

\* C11: the table holds at most one row per cache key in every state, also
\* when two setCachedData calls for one key both run their existence check
\* before either writes; and every setCachedData call that has ended returned
\* a boolean, false when a query reported an error or threw.
C11_OneRowPerKey ==
    /\ \A r1, r2 \in api_cache : r1.cache_key = r2.cache_key => r1 = r2
    /\ \A c \in Callers :
          (setCall[c].pc = "idle" /\ setCall[c] # Idle) =>
              /\ setCall[c].res.kind = "return"
              /\ setCall[c].res.value \in BOOLEAN

\* C11 witness: two calls for one key both saw no row, both have ended, one
\* returned true and the other false, and the table holds the one row.
C11_Witness ==
    /\ setCall[1].pc = "idle" /\ setCall[1] # Idle
    /\ setCall[2].pc = "idle" /\ setCall[2] # Idle
    /\ setCall[1].key = setCall[2].key
    /\ ~setCall[1].existingData /\ ~setCall[2].existingData
    /\ setCall[1].res.value /\ ~setCall[2].res.value
    /\ Cardinality({r \in api_cache : r.cache_key = setCall[1].key}) = 1

\* ======================================================== polygon gateway
NextPolygon ==
    \/ \E s \in GatewaySymbols, in \in StockInputs : GetStockPrice(s, in)
    \/ \E s \in GatewaySymbols, in \in OptionsInputs : GetOptionsChain(s, in)
    \/ \E c \in StaleCopies : c[1][1] # "fmp_earnings_" /\ StaleWrite(c[1], c[2])
    \/ Elapse

SpecPolygon == Init /\ [][NextPolygon]_vars

NextMulti ==
    \/ \E symbols \in {<<AAPL, XY>>, <<XY, XY>>} : MultiStart(symbols)
    \/ \E in \in OptionsInputs : MultiStep(in)
    \/ Elapse

SpecMulti == Init /\ [][NextMulti]_vars

\* C6: when a gateway has stored a freshly fetched result under key k, a later
\* call for the same query that finds the entry expired and the upstream
\* failing is served that earlier data (from the copy under k_stale) instead
\* of an error or an empty result.
C6_StaleCopyServed ==
    (gw.called /\ gw.prior.some /\ gw.expired /\ gw.failed)
        => (gw.res.kind = "return" /\ gw.res.value.val = gw.prior.val)

\* C7: a getOptionsChain call whose upstream part failed on a cache miss
\* returns the value read under '<cacheKey>_stale' if that read gave one, and
\* otherwise throws the upstream error itself; it does not return a chain of
\* its own making.
C7_StaleOrRethrow ==
    (gw.called /\ gw.fn = "getOptionsChain" /\ gw.failed)
        => /\ ~gw.hit
           /\ gw.error.message # ""
           /\ gw.stale.some => gw.res = Returns(gw.stale.val)
           /\ ~gw.stale.some => gw.res = Throws(gw.error)

C7_Witness ==
    /\ gw.called /\ gw.fn = "getOptionsChain" /\ gw.failed
    /\ gw.stale.some
    /\ gw.res.kind = "return"
    /\ gw.error = Errors.http500

NextEarnings ==
    \/ \E in \in CalendarInputs :
          \E eps \in [Range(GrowthSymbols(in.up.data.rows)) ->
                          {e \in EpsInputs : e.error # "refused" /\ Len(e.data) # 1}] :
              GetEarningsCalendar(in, eps)
    \/ \E c \in StaleCopies : c[1][1] = "fmp_earnings_" /\ StaleWrite(c[1], c[2])
    \/ Elapse

SpecEarnings == Init /\ [][NextEarnings]_vars

\* calculateEPSGrowth calls for two symbols, one after another, while the
\* clock runs on
NextGrowth ==
    \/ \E symbol \in {AAPL, XY}, in \in EpsInputs : CalculateEPSGrowth(symbol, in)
    \/ Elapse

SpecGrowth == Init /\ [][NextGrowth]_vars

\* getEarningsCalendar calls, one after another, with and without dates and
\* with either flag, while the clock runs on; days -3 and 21 are the extended
\* range of day 0, and the upstream answers with rows or with an empty array
NextCalendar ==
    \/ \E in \in {i \in CalendarInputs :
                     /\ i.sq = "ok" /\ i.cq = "ok" /\ i.cw = "ok"
                     /\ i.up.ok /\ i.up.data.isArray},
          dates \in {<<NULL, NULL>>, <<NULL, Some(21)>>, <<Some(-3), Some(21)>>},
          expandedRange \in BOOLEAN :
          \E call \in {[in EXCEPT !.fromDate = dates[1], !.toDate = dates[2],
                                  !.expandedRange = expandedRange]} :
              GetEarningsCalendar(
                  call,
                  [symbol \in Range(GrowthSymbols(in.up.data.rows)) |->
                      CHOOSE e \in EpsInputs :
                          e.q = "ok" /\ e.cw = "ok" /\ Len(e.data) > 1])
    \/ Elapse

SpecCalendar == Init /\ [][NextCalendar]_vars

\* --------------------------------------------------- the EPS growth batches
\* six symbols make a batch of five and a batch of one
NextEps ==
    \/ \E symbols \in {<<XY, AAPL>>,
                        <<AAPL, XY, <<"A">>, <<"B">>, <<"C">>, <<"D">>>>} :
            EpsStart(symbols)
    \/ \E symbol \in DOMAIN epsBatch.lookup,
          in \in {e \in EpsInputs : e.error # "refused" /\ Len(e.data) # 1} :
            EpsLookup(symbol, in)
    \/ EpsDelay
    \/ EpsJoin

SpecEps == Init /\ [][NextEps]_vars

NextLimiter ==
    \/ \E c \in LimiterCallers, jitter \in Jitters : LimiterCall(c, jitter)
    \/ \E c \in LimiterCallers, jitter \in Jitters : LimiterWake(c, jitter)
    \/ TickLimiter

SpecLimiter == Init /\ [][NextLimiter]_vars

\* the limiter with a caller of reset(), which the application exports as
\* resetFMPLimiter and calls nowhere itself; Math.random() is at its upper
\* end, the wait for the window being longer than every backoff delay, and
\* of the idle callers, which are alike, the first one calls
NextReset ==
    \/ \E c \in LimiterCallers :
          /\ \A d \in LimiterCallers : d < c => limCall[d].pc # "idle"
          /\ LimiterCall(c, 100)
    \/ \E c \in LimiterCallers : LimiterWake(c, 100)
    \/ TickLimiter
    \/ LimiterReset

SpecReset == Init /\ [][NextReset]_vars

\* the limiter with one sequential caller: a call begins only when no other
\* call is in flight
NextSequential ==
    \/ \E c \in LimiterCallers, jitter \in Jitters :
          /\ \A d \in LimiterCallers : limCall[d].pc = "idle"
          /\ LimiterCall(c, jitter)
    \/ \E c \in LimiterCallers, jitter \in Jitters : LimiterWake(c, jitter)
    \/ TickLimiter

SpecSequential == Init /\ [][NextSequential]_vars

\* upstream requests of the earnings gateways, one at a time: the gateway's
\* own checkLimit(), then fmpClient.get(), whose request() runs on the same
\* limiter
NextUpstream ==
    \/ \E jitter \in Jitters : GatewayLimit(jitter)
    \/ \E jitter \in Jitters : request.pc = "get" /\ RequestStart(jitter)
    \/ \E jitter \in Jitters : RequestWake(jitter)
    \/ \E resp \in {[status |-> 200, body |-> "data"],
                     [status |-> 404, body |-> "none"],
                     [status |-> 500, body |-> "none"]} : RequestFetch(resp)
    \/ TickLimiter

SpecUpstream == Init /\ [][NextUpstream]_vars

\* C12: a pass through checkLimit records a timestamp only when fewer than
\* maxRequests timestamps were recorded in the window that trails it, and in
\* every state the number of timestamps recorded in the trailing window is at
\* most maxRequests, however the callers interleave.
C12_WindowNeverExceeded ==
    /\ Len(limLog.recorded) <= maxRequests
    /\ Len(SelectSeq(limiter.requests, LAMBDA time : time > now - WindowMs))
           <= maxRequests
    /\ (limLog.last.called /\ limLog.last.outcome = "true") =>
           Len(limLog.last.window) < maxRequests

\* C12 witness: a caller is asleep while the window holds maxRequests
\* timestamps and another caller has just been refused as well.
C12_Witness ==
    /\ Len(limLog.recorded) = maxRequests
    /\ \A c \in LimiterCallers : limCall[c].pc = "sleeping"

\* C13: a call made while fewer than maxRequests timestamps are recorded in
\* the trailing window returns true without sleeping (so the first
\* maxRequests calls of a fresh limiter do); a pass made while maxRequests are
\* recorded sleeps or throws; and a pass made once windowMs has elapsed since
\* the oldest entry of this.requests records its timestamp at once.
C13_CapacityPerWindow ==
    limLog.last.called =>
        LET last == limLog.last IN
        /\ Len(last.window) < maxRequests =>
               /\ last.outcome = "true"
               /\ last.entry = "call" => last.sleeps = 0
        /\ Len(last.window) >= maxRequests => last.outcome \in {"sleep", "throw"}
        /\ (last.oldest.some /\ last.at >= last.oldest.val + WindowMs) =>
               last.outcome = "true"

\* C13 witness: a call made exactly windowMs after the oldest entry, which
\* was still in this.requests, returned true without sleeping.
C13_Witness ==
    /\ limLog.last.called /\ limLog.last.entry = "call"
    /\ limLog.last.oldest.some
    /\ limLog.last.at = limLog.last.oldest.val + WindowMs
    /\ limLog.last.outcome = "true" /\ limLog.last.sleeps = 0

\* C14: a checkLimit call sleeps at most maxRetries times before it returns
\* true or throws, also when other callers use the limiter meanwhile.
C14_AtMostMaxRetriesSleeps ==
    \A c \in LimiterCallers : limCall[c].sleeps <= MaxRetries

\* ============================================================== API client
\* one fetch of request() comes to an ok response with one of the three
\* bodies, to a response that is not ok, or to an error without a status
NextClient ==
    \/ \E jitter \in Jitters : RequestStart(jitter)
    \/ \E jitter \in Jitters : RequestWake(jitter)
    \/ \E resp \in {[status |-> 200, body |-> b] : b \in {"data", "error", "ERROR"}}
                      \cup {[status |-> st, body |-> "none"] :
                            st \in {0, 404, 429, 500}} :
            RequestFetch(resp)
    \/ TickLimiter

SpecClient == Init /\ [][NextClient]_vars

\* C15: every fetch of a request() call is preceded by a checkLimit
\* acquisition of its own.
C15_EveryFetchGated ==
    request.fetches <= request.acquired

\* ------------------------------------------------------------- calculations
\* the one call of meetsBasicCriteria(option, stockPrice, earningsDate) a
\* behaviour of the calculations makes, at clock t on an engine whose criteria
\* are c; the contract is a put with the fields
\* of contract, in the order of Put's parameters from expiration on
ApplyCriteria(c, contract, stockPrice, earningsDate, t) ==
    LET option == Put(9500, contract[1], contract[2], contract[3], contract[4],
                      contract[5])
    IN
    /\ calc.fn = "none"
    /\ calc' = [fn |-> "meetsBasicCriteria", c |-> c, option |-> option,
                stockPrice |-> stockPrice, earningsDate |-> earningsDate, t |-> t,
                result |-> meetsBasicCriteria(c, option, stockPrice, earningsDate, t)]
    /\ UNCHANGED <<now, cacheVars, engineVars, gatewayVars, limiterVars>>

updateCriteria_SkipsFalsy(this, c) ==
    [f \in DOMAIN this |->
        IF /\ f \notin {"minVolume", "minOpenInterest"}
           /\ f \in DOMAIN c
           /\ c[f].type = "number" /\ c[f].n # 0
        THEN c[f] ELSE this[f]]

\* updateCriteria(criteria) on an engine whose ten fields are this.  A
\* JavaScript value is a record of its type ("number", "null" or "undefined")
\* and, for a number, the number; a property the argument lacks reads as
\* undefined.
updateCriteria(this, c) ==
    [f \in DOMAIN this |->
        IF /\ f \notin {"minVolume", "minOpenInterest"}
           /\ f \in DOMAIN c
           /\ c[f].type # "undefined"
        THEN c[f] ELSE this[f]]

\* the one call of updateCriteria a behaviour of the calculations makes, on the
\* engine as constructed: the argument has the properties in keys, those in
\* nulls with the value of the given type and the others with a number
ApplyUpdate(keys, nulls, type) ==
    LET this == [f \in DOMAIN DefaultCriteria |->
                    [type |-> "number", n |-> DefaultCriteria[f]]]
        c == [f \in keys |-> IF f \in nulls THEN [type |-> type, n |-> 0]
                             ELSE [type |-> "number", n |-> 7]]
    IN
    /\ calc.fn = "none"
    /\ calc' = [fn |-> "updateCriteria", this |-> this, c |-> c,
                result |-> updateCriteria(this, c)]
    /\ UNCHANGED <<now, cacheVars, engineVars, gatewayVars, limiterVars>>

\* the one call of prioritizeSymbols(earningsData) a behaviour of the
\* calculations makes, on an engine that keeps maxSymbolsToProcess symbols: the
\* events are those of AAPL, XY, a third symbol and BRK.B, in the given order
\* and with the given market capitalizations
ApplyPrioritize(maxSymbolsToProcess, third, order, caps) ==
    LET c == [DefaultCriteria EXCEPT !.maxSymbolsToProcess = maxSymbolsToProcess]
        events == <<Earning(AAPL, caps[1], 5), Earning(XY, caps[2], 5),
                    Earning(third, caps[3], 5), Earning(BRKB, caps[4], 5)>>
        earningsData == [j \in 1..4 |-> events[order[j]]]
    IN
    /\ calc.fn = "none"
    /\ calc' = [fn |-> "prioritizeSymbols", c |-> c, earningsData |-> earningsData,
                result |-> prioritizeSymbols(c, earningsData)]
    /\ UNCHANGED <<now, cacheVars, engineVars, gatewayVars, limiterVars>>

\* the one call of calculateConfidenceScore a behaviour of the calculations
\* makes; liquidity is the open interest and the volume
ApplyConfidence(impliedVol, liquidity, epsGrowth, pop, premiumPct) ==
    /\ calc.fn = "none"
    /\ calc' = [fn |-> "calculateConfidenceScore", impliedVol |-> impliedVol,
                liquidity |-> liquidity, epsGrowth |-> epsGrowth, pop |-> pop,
                premiumPct |-> premiumPct,
                scores |-> SubScores(impliedVol, liquidity[1], liquidity[2],
                                     epsGrowth, pop, premiumPct),
                result |-> calculateConfidenceScore(impliedVol, liquidity[1],
                               liquidity[2], epsGrowth, pop, premiumPct)]
    /\ UNCHANGED <<now, cacheVars, engineVars, gatewayVars, limiterVars>>

\* the calls of calculateTimeToExpiry, calculatePOP and
\* calculatePremiumPercentage a behaviour of the calculations makes: the
\* probability of profit is computed once for the time to expiry of the
\* given expiration date, as processSymbol does, and once for the given time;
\* prices[1] is the stock price, prices[2] the strike, prices[3] the premium
ApplyPOP(prices, expirationDate, t, timeToExpiry, impliedVolatility) ==
    LET expiry == calculateTimeToExpiry(expirationDate, t) IN
    /\ calc.fn = "none"
    /\ prices[1] > 0 \/ impliedVolatility <= 0 \/ (expiry <= 0 /\ timeToExpiry <= 0)
    /\ calc' = [fn |-> "calculatePOP", stockPrice |-> prices[1],
                strikePrice |-> prices[2], premium |-> prices[3],
                expirationDate |-> expirationDate, t |-> t,
                timeToExpiry |-> timeToExpiry, impliedVolatility |-> impliedVolatility,
                expiry |-> expiry,
                pop |-> calculatePOP(prices[1], prices[2], expiry, 5, impliedVolatility),
                result |-> calculatePOP(prices[1], prices[2], timeToExpiry, 5,
                                        impliedVolatility),
                premiumPercentage |-> calculatePremiumPercentage(prices[3], prices[1])]
    /\ UNCHANGED <<now, cacheVars, engineVars, gatewayVars, limiterVars>>

\* the criteria are the constructor's or a set updateCriteria installed
NextCalc ==
    \/ \E prices \in {-100, 0, 10000} \X {0, 9500, 10500} \X {-10, 0, 400},
          expirationDate \in {-1, 0, 1, 8}, t \in {0, DayMs \div 2, DayMs},
          timeToExpiry \in {-100, 0, 1, 2190}, impliedVolatility \in {-30, 0, 30} :
            ApplyPOP(prices, expirationDate, t, timeToExpiry, impliedVolatility)
    \/ \E impliedVol \in {-100000, -50, 0, 30, 50, 100000},
          liquidity \in {-5, 0, 1000, 1000000000} \X {-5, 0, 100, 1000000},
          epsGrowth \in {-100000, -50, 0, 50, 100000},
          pop \in {-100000, 0, 9000, 100000},
          premiumPct \in {-100000, -1, 0, 400, 100000} :
            ApplyConfidence(impliedVol, liquidity, epsGrowth, pop, premiumPct)
    \/ \E maxSymbolsToProcess \in {1, 2, 50},
          third \in {<<"Q">>, <<"a", "a", "p", "l">>, <<"A", "_", "B">>},
          order \in {<<1, 2, 3, 4>>, <<4, 3, 2, 1>>, <<2, 1, 4, 3>>},
          caps \in {0, 100, 1000, 100000} \X {0, 100, 1000}
                      \X {0, 100, 10000} \X {0, 100000} :
            ApplyPrioritize(maxSymbolsToProcess, third, order, caps)
    \/ \E some \in SUBSET {"minDelta", "maxPOP", "minVolume"},
          others \in {{}, DOMAIN DefaultCriteria \ {"minDelta", "maxPOP", "minVolume"}},
          nulls \in SUBSET {"minDelta", "minVolume"},
          type \in {"number", "null", "undefined"} :
            ApplyUpdate(some \cup others, nulls, type)
    \/ \E c \in {DefaultCriteria,
               [DefaultCriteria EXCEPT !.minDelta = 25, !.minDaysToExpiry = 0]},
       stockPrice \in {0, 10000},
       earningsDate \in {0, 5}, t \in {0, DayMs \div 2},
       contract \in {0, 1, 5, 6, 14, 15} \X {0, 349, 350, 1000, 1001}
                       \X {-25, -20, 20, 21} \X {9, 10} \X {49, 50} :
        ApplyCriteria(c, contract, stockPrice, earningsDate, t)

SpecCalc == Init /\ [][NextCalc]_vars

\* ================================================================ mock mode
\* updateCriteria(criteria) on the singleton engine, with numbers for the
\* properties c has
UpdateCriteria(c) ==
    LET this == [f \in DOMAIN criteria |-> [type |-> "number", n |-> criteria[f]]]
        arg == [f \in DOMAIN c |-> [type |-> "number", n |-> c[f]]]
    IN
    /\ criteria' = [f \in DOMAIN criteria |-> updateCriteria(this, arg)[f].n]
    /\ UNCHANGED <<calc, now, cacheVars, recommendations, run, gatewayVars,
                   limiterVars>>

\* the inputs of mock mode: the outcomes of the cache read and of the store
\* vary, and upstream would answer with the first of its good responses
MockInputs(inputs) ==
    LET first == CHOOSE i \in inputs :
                    i.up.ok /\ i.q = "ok" /\ i.sq = "ok" /\ i.cq = "ok" /\ i.cw = "ok"
    IN  {[first EXCEPT !.mock = TRUE, !.q = q, !.cq = cq, !.cw = cw] :
            q \in DbOutcomes, cq \in DbOutcomes, cw \in DbOutcomes}

\* The application without API keys, or with VITE_USE_MOCK_DATA set:
\* shouldUseMockData is true in every gateway call.  One generateRecommendations
\* call runs beside single gateway calls; where it awaits getEarningsCalendar
\* or getMultipleOptionsChains the call is made by the gateway's own steps and
\* the run goes on with what that call returned.
NextMock ==
    \/ \E symbol \in GatewaySymbols, in \in MockInputs(StockInputs) :
            GetStockPrice(symbol, in)
    \/ \E symbol \in GatewaySymbols, in \in MockInputs(OptionsInputs) :
            GetOptionsChain(symbol, in)
    \/ \E in \in MockInputs(CalendarInputs) : GetEarningsCalendar(in, <<>>)
    \/ \E c \in {[minPremiumPercentage |-> 50], [minPremiumPercentage |-> 350]} :
            UpdateCriteria(c)
    \/ \E q \in QueryOutcomes : GenStart("r1", q)
    \/ /\ gw.called /\ gw.fn = "getEarningsCalendar"
          /\ gw.key = EarningsKey(NULL, NULL, TRUE, now)
       /\ \E out \in {[threw |-> gw.res.kind = "throw",
                       data |-> IF gw.res.value.some THEN gw.res.value.val ELSE <<>>,
                       error |-> gw.res.error.message]} :
            GenEarnings("r1", out)
    \/ /\ run["r1"].pc = "batch"
       /\ MultiStart(Slice(run["r1"].symbols, run["r1"].i, run["r1"].i + BatchSize))
    \/ \E in \in MockInputs(OptionsInputs) : MultiStep(in)
    \/ /\ multi.pc = "done"
       /\ \E outs \in {[j \in 1..Len(multi.symbols) |->
                          IF multi.symbols[j] \in DOMAIN multi.results
                          THEN [ok |-> TRUE, chain |-> multi.results[multi.symbols[j]]]
                          ELSE [ok |-> FALSE,
                                chain |-> [underlyingPrice |-> 0, options |-> <<>>]]]} :
            GenBatch("r1", outs)
    \/ \E u \in QueryOutcomes, cq \in DbOutcomes, cw \in DbOutcomes :
            SaveDeactivate("r1", u, cq, cw)
    \/ \E w \in QueryOutcomes, cq \in DbOutcomes, cw \in DbOutcomes :
            SaveInsert("r1", w, cq, cw)
    \/ \E q \in QueryOutcomes : GenFallback("r1", q)

SpecMock == Init /\ [][NextMock]_vars

\* ============================================================ symbol batches
\* One generateRecommendations call whose earnings calendar holds twelve
\* events, so that prioritizeSymbols returns a batch of ten symbols and a batch
\* of two.  In a batch the options fetch fails for none of the symbols, for
\* one of them, or for all, and the others get the same chain.
NextBatches ==
    \/ \E q \in QueryOutcomes : GenStart("r1", q)
    \/ \E out \in {[threw |-> FALSE, error |-> "",
                     data |-> [j \in 1..12 |->
                        Earning(IF j % 2 = 0
                                THEN <<<<"A", "B", "C", "D", "E", "F">>[j \div 2]>>
                                ELSE <<"Z", <<"A", "B", "C", "D", "E", "F">>[(j + 1) \div 2]>>,
                                100000, 5)]]} :
            GenEarnings("r1", out)
    \/ \E first \in 1..2, failing \in 0..2, ch \in {c \in Chains : c.underlyingPrice > 0} :
          \E outs \in {[j \in 1..Min(BatchSize, Len(run["r1"].symbols) - run["r1"].i) |->
                          IF j \in first..(first + failing - 1)
                          THEN [ok |-> FALSE,
                                chain |-> [underlyingPrice |-> 0, options |-> <<>>]]
                          ELSE [ok |-> TRUE, chain |-> ch]]} :
            GenBatch("r1", outs)
    \/ \E u \in QueryOutcomes, cq \in DbOutcomes, cw \in DbOutcomes :
            SaveDeactivate("r1", u, cq, cw)
    \/ \E w \in QueryOutcomes, cq \in DbOutcomes, cw \in DbOutcomes :
            SaveInsert("r1", w, cq, cw)
    \/ \E q \in QueryOutcomes : GenFallback("r1", q)

SpecBatches == Init /\ [][NextBatches]_vars

\* A run on an engine whose criteria a caller of updateCriteria changes while
\* the run is suspended.  The earnings calendar holds the twelve events, or
\* two events of one symbol; every options fetch returns RunChain, whose first
\* contract yields 3.53 % and whose second yields 3.62 %; the cache store
\* answers.
RunChain ==
    [underlyingPrice |-> 10000,
     options |-> <<Put(9404, 9, 353, -10, 1000, 1000),
                   Put(9416, 9, 362, -10, 1000, 1000)>>]

NextRun ==
    \/ \E q \in QueryOutcomes : GenStart("r1", q)
    \/ \E out \in {[threw |-> FALSE, error |-> "",
                     data |-> [j \in 1..12 |->
                        Earning(IF j % 2 = 0
                                THEN <<<<"A", "B", "C", "D", "E", "F">>[j \div 2]>>
                                ELSE <<"Z", <<"A", "B", "C", "D", "E", "F">>[(j + 1) \div 2]>>,
                                100000, 5)]],
                    [threw |-> FALSE, error |-> "",
                     data |-> <<Earning(XY, 100000, 5), Earning(XY, 100000, 8)>>]} :
            GenEarnings("r1", out)
    \/ \E outs \in {[j \in 1..Min(BatchSize, Len(run["r1"].symbols) - run["r1"].i) |->
                        [ok |-> TRUE, chain |-> RunChain]]} :
            GenBatch("r1", outs)
    \/ \E c \in {[minPremiumPercentage |-> 350], [minPremiumPercentage |-> 360]} :
            UpdateCriteria(c)
    \/ \E u \in QueryOutcomes : SaveDeactivate("r1", u, "ok", "ok")
    \/ \E w \in QueryOutcomes : SaveInsert("r1", w, "ok", "ok")
    \/ \E q \in QueryOutcomes : GenFallback("r1", q)

SpecRun == Init /\ [][NextRun]_vars

\* C16: meetsBasicCriteria returns true exactly when the six rules hold: the
\* magnitude of delta is at most minDelta; the premium is at least
\* minPremiumPercentage percent of the stock price; the days to expiration,
\* rounded up, lie between minDaysToExpiry and maxDaysToExpiry; the contract
\* expires strictly after the earnings date; volume and open interest reach
\* their minimums; and the premium is positive and at most a tenth of the
\* stock price.  A contract whose delta exceeds minDelta in magnitude is
\* rejected whatever its other fields.
C16_SixRules ==
    calc.fn = "meetsBasicCriteria" =>
        LET o == calc.option
            c == calc.c
            msToExpiry == o.expiration * DayMs - calc.t
            days == CHOOSE n \in -1..31 :
                        (n - 1) * DayMs < msToExpiry /\ msToExpiry <= n * DayMs
            rules ==
                /\ o.delta <= c.minDelta /\ 0 - o.delta <= c.minDelta
                /\ o.premium * 10000 >= c.minPremiumPercentage * calc.stockPrice
                /\ c.minDaysToExpiry <= days /\ days <= c.maxDaysToExpiry
                /\ o.expiration > calc.earningsDate
                /\ o.volume >= c.minVolume /\ o.openInterest >= c.minOpenInterest
                /\ 0 < o.premium /\ o.premium * 10 <= calc.stockPrice
        IN  /\ calc.result = rules
            /\ (o.delta > c.minDelta \/ 0 - o.delta > c.minDelta) => ~calc.result

\* C16 witness: under the default criteria a contract with delta -0.25, ideal
\* in every other field, was rejected.
C16_Witness ==
    /\ calc.fn = "meetsBasicCriteria"
    /\ calc.c = DefaultCriteria
    /\ calc.option = Put(9500, 6, 350, -25, 10, 50)
    /\ calc.stockPrice = 10000 /\ calc.earningsDate = 5 /\ calc.t = 0
    /\ ~calc.result

\* C17: every recommendation a run returned as freshly generated or inserted
\* comes from a contract that met the basic criteria against the earnings
\* date of its own symbol and whose probability of profit lies between
\* minPOP and maxPOP; its symbol has an entry in the run's earnings data and
\* an options chain with a positive underlying price.
C17_EmittedPassedFilters ==
    \A r \in Runs :
        LET rec == run[r]
            returned == IF rec.pc = "done" /\ rec.fresh THEN Range(rec.result) ELSE {}
            inserted == {recommendations[j].rec : j \in
                            {m \in 1..Len(recommendations) : recommendations[m].gen = r}}
            contract(x) == [strike |-> x.strike_price, expiration |-> x.expiration_date,
                            premium |-> x.premium, delta |-> x.delta,
                            impliedVolatility |-> x.implied_volatility,
                            volume |-> x.volume, openInterest |-> x.open_interest]
        IN  \A x \in returned \cup inserted :
                /\ \E m \in 1..Len(rec.earningsData) :
                      /\ rec.earningsData[m].symbol = x.symbol
                      /\ \A n \in 1..(m - 1) : rec.earningsData[n].symbol # x.symbol
                      /\ rec.earningsData[m].date = x.earnings_date
                /\ x.symbol \in rec.priced
                /\ x.stock_price > 0
                /\ meetsBasicCriteria(criteria, contract(x), x.stock_price,
                                      x.earnings_date, now)
                /\ x.pop = calculatePOP(x.stock_price, x.strike_price,
                               calculateTimeToExpiry(x.expiration_date, now), 5,
                               x.implied_volatility)
                /\ criteria.minPOP * 100 <= x.pop /\ x.pop <= criteria.maxPOP * 100

\* C17 witness: a run returned a fresh list that holds XY's contract expiring
\* on day 8 and nothing for AAPL, whose chain was fetched with a price and
\* whose earnings fall on day 8.
C17_Witness ==
    \E r \in Runs :
        /\ run[r].pc = "done" /\ run[r].fresh
        /\ \E x \in Range(run[r].result) : x.symbol = XY /\ x.expiration_date = 8
        /\ AAPL \in run[r].priced
        /\ \A x \in Range(run[r].result) : x.symbol # AAPL

\* C18: every recommendation a run returned as freshly generated or inserted
\* has breakeven = strike_price - premium, max_loss = (strike_price - premium)
\* * 100 and premium_percentage = premium / stock_price * 100 (here in whole
\* hundredths of a percent), and its confidence_score and its pop lie
\* between 0 and 100 (here in hundredths).
C18_DerivedFields ==
    \A x \in {recommendations[j].rec : j \in 1..Len(recommendations)}
                \cup UNION {Range(run[r].result) :
                              r \in {q \in Runs : run[q].pc = "done" /\ run[q].fresh}} :
        /\ x.breakeven = x.strike_price - x.premium
        /\ x.max_loss = (x.strike_price - x.premium) * 100
        /\ x.premium_percentage * x.stock_price <= x.premium * 10000
        /\ x.premium * 10000 < (x.premium_percentage + 1) * x.stock_price
        /\ 0 <= x.confidence_score /\ x.confidence_score <= 10000
        /\ 0 <= x.pop /\ x.pop <= 10000

\* C18 witness: a run returned a fresh list whose two recommendations differ
\* in strike, premium and confidence score, and inserted it.
C18_Witness ==
    \E r \in Runs :
        /\ run[r].pc = "done" /\ run[r].fresh
        /\ \E x, y \in Range(run[r].result) :
              /\ x.strike_price # y.strike_price /\ x.premium # y.premium
              /\ x.confidence_score # y.confidence_score
              /\ \E j \in 1..Len(recommendations) : recommendations[j].rec = x

\* C19: the freshly generated list a run returns is ordered by non-increasing
\* confidence_score, holds at most 30 recommendations, all of them candidates
\* the run's batches produced, and no candidate left out of it has a
\* confidence_score above that of a recommendation in it.
C19_TopSelection ==
    \A r \in Runs :
        LET rec == run[r] IN
        (rec.pc = "done" /\ rec.fresh) =>
            /\ \A j \in 1..(Len(rec.result) - 1) :
                  rec.result[j].confidence_score >= rec.result[j + 1].confidence_score
            /\ Len(rec.result) <= 30
            /\ Range(rec.result) \subseteq rec.candidates
            /\ \A x \in rec.candidates \ Range(rec.result), y \in Range(rec.result) :
                  x.confidence_score <= y.confidence_score

\* C19 witness: a run whose batches produced more than 30 candidates returned
\* 30 of them, with different confidence scores at the two ends of the list.
C19_Witness ==
    \E r \in Runs :
        /\ run[r].pc = "done" /\ run[r].fresh
        /\ Len(run[r].result) = 30
        /\ Cardinality(run[r].candidates) > 30
        /\ run[r].result[1].confidence_score > run[r].result[30].confidence_score

\* C20: when a run returns a freshly generated list, the active rows of the
\* recommendations table are at that moment exactly the rows it inserted for
\* that list; a run whose earnings list or candidate list is empty writes
\* nothing to the table and returns the list it read at its start.
C20_PersistedAsActiveSet ==
    \A r \in Runs :
        LET rec == run[r] IN
        rec.pc = "done" =>
            /\ rec.fresh =>
                  /\ rec.activeAtReturn.gens = {r}
                  /\ rec.activeAtReturn.count = Len(rec.result)
            /\ (~rec.fresh /\ rec.failed \subseteq {"read", "options"}) =>
                  /\ rec.writes = 0
                  /\ rec.result = rec.cachedRecommendations

\* C21: after updateCriteria(c) each of the eight updatable fields holds c's
\* value when c defines it, 0 and null included, and its former value
\* otherwise; minVolume and minOpenInterest, the only other fields of the
\* engine, keep their values whatever c holds.
C21_PartialUpdate ==
    calc.fn = "updateCriteria" =>
        /\ DOMAIN calc.result = DOMAIN calc.this
        /\ \A f \in DOMAIN calc.this :
              LET defined == f \in DOMAIN calc.c /\ calc.c[f].type # "undefined" IN
              IF f \in {"minDelta", "minPremiumPercentage", "minPOP", "maxPOP",
                        "maxDaysToExpiry", "minDaysToExpiry", "maxSymbolsToProcess",
                        "minMarketCap"} /\ defined
              THEN calc.result[f] = calc.c[f]
              ELSE calc.result[f] = calc.this[f]

\* C21 witness: a call whose argument sets minDelta to null, maxPOP to a
\* number, minVolume to null and nothing else left minDelta null, maxPOP at
\* the number and minVolume as it was.
C21_Witness ==
    /\ calc.fn = "updateCriteria"
    /\ DOMAIN calc.c = {"minDelta", "maxPOP", "minVolume"}
    /\ calc.result.minDelta.type = "null"
    /\ calc.result.maxPOP = [type |-> "number", n |-> 7]
    /\ calc.result.minVolume = calc.this.minVolume
    /\ calc.result.minPOP = calc.this.minPOP

\* C22 as stated: prioritizeSymbols returns at most maxSymbolsToProcess
\* symbols in non-increasing order of priority score, each of an event whose
\* market capitalization is present, not 0 and not below minMarketCap.
C22_MarketCapAtLeastMin ==
    calc.fn = "prioritizeSymbols" =>
        LET event(sym) == CHOOSE e \in Range(calc.earningsData) : e.symbol = sym IN
        /\ Len(calc.result) <= calc.c.maxSymbolsToProcess
        /\ \A j \in 1..(Len(calc.result) - 1) :
              PriorityScore(event(calc.result[j]))
                  >= PriorityScore(event(calc.result[j + 1]))
        /\ \A sym \in Range(calc.result) :
              /\ event(sym).marketCap # 0
              /\ event(sym).marketCap >= calc.c.minMarketCap

\* C22 amended: prioritizeSymbols returns at most maxSymbolsToProcess symbols
\* in non-increasing order of priority score, each of an event whose market
\* capitalization is either missing or 0, in which case the threshold is not
\* applied, or not below minMarketCap.
C22_MarketCapIfAvailable ==
    calc.fn = "prioritizeSymbols" =>
        LET event(sym) == CHOOSE e \in Range(calc.earningsData) : e.symbol = sym IN
        /\ Len(calc.result) <= calc.c.maxSymbolsToProcess
        /\ \A j \in 1..(Len(calc.result) - 1) :
              PriorityScore(event(calc.result[j]))
                  >= PriorityScore(event(calc.result[j + 1]))
        /\ \A sym \in Range(calc.result) :
              \/ event(sym).marketCap = 0
              \/ event(sym).marketCap >= calc.c.minMarketCap

\* C22 witness: of three events with an acceptable symbol, one without a
\* market capitalization, one below the threshold and one above it, the call
\* returned the first and the third, the larger score first.
C22_Witness ==
    /\ calc.fn = "prioritizeSymbols"
    /\ calc.c.maxSymbolsToProcess = 2
    /\ calc.earningsData[1] = Earning(AAPL, 100000, 5)
    /\ calc.earningsData[2] = Earning(XY, 100, 5)
    /\ calc.earningsData[3] = Earning(<<"Q">>, 0, 5)
    /\ calc.result = <<AAPL, <<"Q">>>>

\* C23: every symbol prioritizeSymbols returns consists of 1 to 5 uppercase
\* letters and of nothing else.
C23_UppercaseLettersOnly ==
    calc.fn = "prioritizeSymbols" =>
        \A sym \in Range(calc.result) :
            /\ Len(sym) >= 1 /\ Len(sym) <= 5
            /\ \A j \in 1..Len(sym) :
                  sym[j] \in {"A", "B", "C", "D", "E", "F", "G", "H", "I", "J", "K",
                              "L", "M", "N", "O", "P", "Q", "R", "S", "T", "U", "V",
                              "W", "X", "Y", "Z"}

\* C24: calculateConfidenceScore returns a value between 0 and 100 (here in
\* hundredths) for negative, zero and large implied volatility, volume, open
\* interest, EPS growth, probability of profit and premium percentage.
C24_ScoreInRange ==
    calc.fn = "calculateConfidenceScore" =>
        0 <= calc.result /\ calc.result <= 10000

\* C24 witness: the unclamped average lies above 100 for one call and below 0
\* for another; here it was below 0, with a negative premium percentage, and
\* the call returned 0.
C24_Witness ==
    /\ calc.fn = "calculateConfidenceScore"
    /\ calc.premiumPct = -100000 /\ calc.impliedVol = 50
    /\ calc.scores.premiumScore * 10 + calc.scores.oiScore * 20
           + calc.scores.volumeScore * 20 + calc.scores.epsScore * 15
           + calc.scores.popScore * 10 + calc.scores.ivScore * 25 < 0
    /\ calc.result = 0

\* C25: each of the six sub-scores of calculateConfidenceScore lies between 0
\* and 100 (here in hundredths) before weighting, negative implied volatility
\* and negative premium percentage included.
C25_SubScoresInRange ==
    calc.fn = "calculateConfidenceScore" =>
        \A k \in DOMAIN calc.scores :
            0 <= calc.scores[k] /\ calc.scores[k] <= 10000

\* C26: calculatePOP returns 0 whenever timeToExpiry <= 0 or
\* impliedVolatility <= 0, whatever the stock price and the strike;
\* calculateTimeToExpiry returns no negative value, so that the probability
\* of profit of a contract whose expiration is not in the future is 0; and
\* calculatePremiumPercentage returns 0 when stockPrice <= 0.
C26_ZeroGuards ==
    calc.fn = "calculatePOP" =>
        /\ (calc.timeToExpiry <= 0 \/ calc.impliedVolatility <= 0) => calc.result = 0
        /\ calc.expiry >= 0
        /\ calc.expirationDate * DayMs <= calc.t => calc.pop = 0
        /\ calc.stockPrice <= 0 => calc.premiumPercentage = 0

\* C26 witness: for a contract that expired the day before, with positive
\* prices and volatility, the time to expiry and the probability of profit
\* were 0, while the same contract with time left has a positive probability.
C26_Witness ==
    /\ calc.fn = "calculatePOP"
    /\ calc.expirationDate = -1 /\ calc.t = 0
    /\ calc.stockPrice = 10000 /\ calc.strikePrice = 9500
    /\ calc.impliedVolatility = 30 /\ calc.timeToExpiry = 2190
    /\ calc.expiry = 0 /\ calc.pop = 0 /\ calc.result > 0

\* C27: in mock mode no gateway call, single or made for a
\* generateRecommendations run, goes upstream: no limiter records a timestamp
\* and no HTTP request is issued; a call is answered from the cache or from
\* the canned data, and the run filters, scores, ranks and persists the canned
\* contracts: its result holds exactly the candidates processSymbol emits for
\* them, ranked and cut as on the live path.
C27_MockNeverUpstream ==
    /\ gw.called => ~gw.upstream /\ ~gw.failed /\ gw.res.kind = "return"
    /\ limiter.requests = <<>> /\ limLog.recorded = <<>> /\ request = IdleRequest
    /\ \A r \in Runs :
         run[r].pc = "done" /\ run[r].fresh =>
            /\ run[r].result = SortAndSlice(run[r].result)
            /\ Range(run[r].result) \subseteq run[r].candidates
            /\ \A rec \in run[r].candidates :
                 \E e \in 1..Len(mockEarningsData),
                    o \in 1..Len(mockOptionsData(rec.symbol).options) :
                      LET earnings == mockEarningsData[e]
                          chain == mockOptionsData(rec.symbol)
                      IN  /\ earnings.symbol = rec.symbol
                          /\ \E m \in {50, 350} :
                               Emits([DefaultCriteria EXCEPT
                                         !.minPremiumPercentage = m],
                                     earnings, chain.options[o],
                                     chain.underlyingPrice, now)
                          /\ rec = Recommendation(rec.symbol, earnings,
                                 chain.options[o], chain.underlyingPrice, now)

\* C27 witness: a run in mock mode saved and returned a recommendation for a
\* canned AAPL contract, and the last gateway call was answered from the
\* canned data, not the cache.
C27_Witness ==
    /\ run["r1"].pc = "done" /\ run["r1"].fresh
    /\ Len(run["r1"].result) > 0
    /\ run["r1"].result[1].symbol = AAPL
    /\ gw.called /\ ~gw.hit /\ ~gw.upstream
    /\ Len(recommendations) > 0

\* C28: no lookup of a later batch is started before every lookup of the
\* earlier batches has settled; the lookups of one batch are in flight
\* together, all of them started before any of them settles; and when
\* calculateEPSGrowthBatch returns every symbol has its own result: 0 if its
\* lookup failed, and otherwise the growth its own lookup computed.
C28_BatchesJoinBeforeNext ==
    /\ \A j, k \in 1..Len(epsBatch.symbols) :
         /\ (j - 1) \div EpsBatchSize = (k - 1) \div EpsBatchSize
         /\ epsBatch.symbols[k] \in DOMAIN epsBatch.lookup
         => epsBatch.symbols[j] \in DOMAIN epsBatch.lookup
    /\ \A j, k \in 1..Len(epsBatch.symbols) :
         /\ (j - 1) \div EpsBatchSize < (k - 1) \div EpsBatchSize
         /\ epsBatch.symbols[k] \in DOMAIN epsBatch.lookup
         => /\ epsBatch.symbols[j] \in DOMAIN epsBatch.lookup
            /\ epsBatch.lookup[epsBatch.symbols[j]] = "settled"
    /\ epsBatch.pc = "done" =>
         /\ DOMAIN epsBatch.results = Range(epsBatch.symbols)
         /\ \A s \in Range(epsBatch.symbols) :
              epsBatch.results[s] = IF s \in epsBatch.failed THEN 0 ELSE 12

\* C28 witness: the call returned after two batches; in the first batch the
\* lookup of XY failed, and settled first, while that of AAPL, started before
\* it, did not fail, and the last symbol's lookup succeeded.
C28_Witness ==
    /\ epsBatch.pc = "done" /\ Len(epsBatch.symbols) > EpsBatchSize
    /\ epsBatch.symbols[1] = AAPL /\ epsBatch.first = <<XY>>
    /\ XY \in epsBatch.failed /\ AAPL \notin epsBatch.failed
    /\ epsBatch.results[XY] = 0 /\ epsBatch.results[AAPL] = 12
    /\ epsBatch.results[<<"D">>] = 12

\* C29: a lookup of a batch after the first is issued only after the
\* inter-batch delay of that batch has run out.
C29_DelayBeforeLookups ==
    \A k \in 1..Len(epsBatch.symbols) :
        /\ k > EpsBatchSize
        /\ epsBatch.symbols[k] \in DOMAIN epsBatch.lookup
        => ((k - 1) \div EpsBatchSize) * EpsBatchSize \in epsBatch.delayed

C31_FailureCachedAsZero ==
    gw.called /\ gw.fn = "calculateEPSGrowth" =>
        LET rows == {r \in api_cache : r.cache_key = gw.key} IN
        /\ gw.failed => ~gw.hit /\ gw.res.value.val = 0
        /\ ~gw.hit /\ gw.stored =>
             rows = {[cache_key |-> gw.key, data |-> gw.res.value.val,
                      expires_at |-> ExpiresAt(gw.at, EpsGrowthMinutes)]}
        /\ ~gw.expired /\ gw.read = "ok" =>
             /\ gw.hit /\ ~gw.upstream /\ ~gw.failed /\ ~gw.stored
             /\ \E r \in rows : r.expires_at > gw.at /\ r.data = gw.res.value.val

\* C31 witness: a call returns the 0 an earlier call stored, from the cache
C31_Witness ==
    /\ gw.called /\ gw.fn = "calculateEPSGrowth"
    /\ gw.hit /\ ~gw.upstream
    /\ gw.prior = Some(0) /\ gw.res.value = Some(0)
    /\ \E r \in api_cache : r.cache_key = gw.key /\ r.data = 0 /\ r.expires_at > gw.at

\* C32: a getEarningsCalendar call that finds an unexpired entry under its
\* cache key, and whose cache read is answered, returns the entry's value, an
\* empty array included, without going to the limiter or the client and
\* without a write; a call is answered from the cache only by an entry under
\* its own key, and the keys of two calls are equal exactly when the calls
\* go on with the same from, the same to and the same flag.
C32_CalendarCacheHit ==
    LET Args == [fromDate : {NULL, Some(-3), Some(-2)},
                 toDate : {NULL, Some(21), Some(22)}, expandedRange : BOOLEAN]
        key(a) == EarningsKey(a.fromDate, a.toDate, a.expandedRange, now)
        range(a) == DateRange(a.fromDate, a.toDate, a.expandedRange, now)
    IN
    /\ \A a \in Args, b \in Args :
          key(a) = key(b) <=>
              range(a) = range(b) /\ a.expandedRange = b.expandedRange
    /\ gw.called /\ gw.fn = "getEarningsCalendar" =>
          /\ gw.hit => ~gw.expired
          /\ ~gw.expired /\ gw.read = "ok" =>
               /\ gw.hit /\ ~gw.upstream /\ ~gw.failed /\ ~gw.stored
               /\ gw.res.kind = "return"
               /\ \E r \in api_cache :
                     /\ r.cache_key = gw.key /\ r.expires_at > gw.at
                     /\ r.data = gw.res.value.val

\* C32 witness: a call with the flag is answered with the empty array cached
\* under its key, while the entry of the same dates without the flag holds rows
C32_Witness ==
    /\ gw.called /\ gw.fn = "getEarningsCalendar"
    /\ gw.hit /\ ~gw.upstream /\ gw.res.value = Some(<<>>)
    /\ Len(gw.key) = 5
    /\ \E r \in api_cache :
          /\ r.cache_key = SubSeq(gw.key, 1, 4) /\ r.expires_at > gw.at
          /\ r.data # <<>>

\* C33, its second half: when the insert step of saveRecommendations has
\* failed, the fallback read that generateRecommendations then makes, if it is
\* answered, is served a non-empty set.  (The first half, that both paths of
\* saveRecommendations write the list under 'latest_recommendations', is what
\* SaveInsert does.)
C33_FallbackServedAfterInsertFailure ==
    \A r \in Runs :
        LET rec == run[r] IN
        (/\ rec.pc = "done"
         /\ rec.error = "insertError"
         /\ "read" \notin rec.failed
         /\ \E row \in api_cache : row.cache_key = LatestKey /\ row.data # <<>>) =>
            rec.fallback.some /\ rec.fallback.val # <<>>

\* C34: the retry counter is 0 right after a pass of checkLimit that returned
\* true or threw, so that isInBackoff() is true only while a caller sleeps or
\* waits to retry; after reset() the limiter holds no timestamp and a retry
\* counter of 0; getUsage() is a function of the limiter and the clock and
\* reports remaining = max - current, between 0 and max.
C34_RetryCounterAndUsage ==
    LET usage == getUsage(limiter, now)
        outcome == IF limLog.last.called THEN limLog.last.outcome ELSE "none"
    IN
    /\ outcome \in {"true", "throw"} =>
           limiter.retryCount = 0 /\ ~isInBackoff(limiter, outcome)
    /\ isInBackoff(limiter, outcome) =>
           \E c \in LimiterCallers : limCall[c].pc = "sleeping"
    /\ outcome = "reset" => limiter = [requests |-> <<>>, retryCount |-> 0]
    /\ usage.current = Len(InWindow(limiter.requests, now))
    /\ usage.max = maxRequests /\ usage.retryCount = limiter.retryCount
    /\ usage.remaining = usage.max - usage.current
    /\ 0 <= usage.remaining /\ usage.remaining <= usage.max

\* C35: with one checkLimit call in flight at a time no call throws: a
\* throttled call sleeps at least until the oldest entry of this.requests has
\* left the window, its first retry returns true, and so every call sleeps at
\* most once.
C35_SequentialNeverThrows ==
    /\ limLog.last.called =>
          /\ limLog.last.outcome # "throw"
          /\ limLog.last.sleeps <= 1
          /\ limLog.last.entry = "wake" => limLog.last.outcome = "true"
    /\ \A c \in LimiterCallers :
          limCall[c].pc = "sleeping" =>
              limCall[c].wakeAt >= Oldest(limiter.requests) + WindowMs

\* C35 witness: the retry of a throttled call has returned true after its one
\* sleep
C35_Witness ==
    /\ limLog.last.called /\ limLog.last.entry = "wake"
    /\ limLog.last.outcome = "true" /\ limLog.last.sleeps = 1

\* C36: a checkLimit call throws only after that call itself has slept
\* maxRetries times, whatever other callers of the limiter do meanwhile.
C36_ThrowsOnlyAfterOwnSleeps ==
    limLog.last.called /\ limLog.last.outcome = "throw" =>
        limLog.last.sleeps = MaxRetries

\* C37: an upstream request of a gateway that has been admitted to its fetch
\* has recorded exactly one timestamp in the limiter.
C37_OneSlotPerRequest ==
    request.pc = "fetch" \/ request.fetches > 0 => request.acquired = 1

\* C38: the Recommendations of the list a run returns have pairwise distinct
\* triples (symbol, strike_price, expiration_date), also when the earnings
\* list holds several events of one symbol.
C38_DistinctContracts ==
    \A r \in Runs :
        run[r].pc = "done" /\ run[r].fresh =>
            \A j, k \in 1..Len(run[r].result) :
                LET x == run[r].result[j]
                    y == run[r].result[k]
                IN  /\ x.symbol = y.symbol
                    /\ x.strike_price = y.strike_price
                    /\ x.expiration_date = y.expiration_date
                    => j = k

\* C39: the Recommendations a run emits were all filtered under one criteria
\* configuration: for one configuration, the candidates of every symbol whose
\* chain was fetched are those processSymbol emits under it.
C39_OneCriteriaPerRun ==
    \A r \in Runs :
        LET rec == run[r]
            first(s) == CHOOSE m \in 1..Len(rec.earningsData) :
                           /\ rec.earningsData[m].symbol = s
                           /\ \A n \in 1..(m - 1) : rec.earningsData[n].symbol # s
        IN
        rec.pc = "done" /\ rec.fresh =>
            \E minPremiumPercentage \in {350, 360} :
                LET c == [DefaultCriteria EXCEPT
                            !.minPremiumPercentage = minPremiumPercentage]
                IN  \A s \in rec.priced :
                       Range(processSymbol(c, s, rec.earningsData[first(s)],
                                           RunChain, now))
                           = {x \in rec.candidates : x.symbol = s}

\* C40: a request() call makes at most maxRetries + 1 fetches; an attempt
\* that ends in a status 4xx other than 429 is the last one and its error is
\* thrown; the call goes on to another attempt only after an error of another
\* kind; when the attempts are used up it throws the error of the last one;
\* and it returns only after an attempt whose response was ok and whose body
\* had neither an error (a truthy error field) nor status 'ERROR'.
C40_RetryAndReturn ==
    LET last == request.resp.val
        clientError == /\ last.status >= 400 /\ last.status < 500
                       /\ last.status # 429
        good == /\ last.status >= 200 /\ last.status < 300
                /\ last.body = "data"
    IN
    /\ request.fetches <= RequestMaxRetries + 1
    /\ request.fetches = 0 <=> ~request.resp.some
    /\ request.fetches > 0 =>
         /\ request.fetches = request.attempt + 1
              \/ (request.pc = "fetch" /\ request.fetches = request.attempt)
         /\ clientError =>
              /\ request.pc = "done" /\ request.outcome = "threw"
              /\ request.thrown = Some(last.status)
         /\ request.pc = "fetch" =>
              ~good /\ ~clientError /\ request.fetches <= RequestMaxRetries
         /\ request.outcome = "threw" =>
              /\ request.pc = "done" /\ ~good
              /\ request.thrown = Some(last.status)
              /\ clientError \/ request.fetches = RequestMaxRetries + 1
         /\ request.outcome = "returned" <=> good
    /\ request.outcome = "returned" => request.fetches > 0

\* C40 witness: the call threw the HTTP 500 of its last attempt after
\* maxRetries + 1 fetches
C40_Witness ==
    /\ request.pc = "done" /\ request.outcome = "threw"
    /\ request.fetches = RequestMaxRetries + 1
    /\ request.thrown = Some(500)

\* C34 witness: after a reset() a call has just thrown while other callers
\* sleep, the counter is back at 0 and no slot remains
C34_Witness ==
    /\ limLog.reset
    /\ limLog.last.called /\ limLog.last.outcome = "throw"
    /\ \E c \in LimiterCallers : limCall[c].pc = "sleeping"
    /\ limiter.retryCount = 0
    /\ getUsage(limiter, now).remaining = 0
====
